---- MODULE Spec2Model ----
(***************************************************************************)
(* Verification model of the type-checking core of hash-org/lang:          *)
(*   - parameter / argument pairing      (hash-typecheck/src/ops/params.rs)*)
(*   - the simplifier                  (hash-typecheck/src/ops/simplify.rs)*)
(*   - set-bound application           (hash-typecheck/src/ops/discover.rs)*)
(* Indices are 0-based as in the source; element i of a list l is l[i+1].  *)
(***************************************************************************)
EXTENDS Integers, Sequences, FiniteSets, TLC

VARIABLES
    fn,               \* which operation of params.rs is running
    params,           \* the parameter list (declaration)
    args,             \* the argument list
    name_map,         \* which of several equally named entries get_by_name finds
    pc,               \* position inside the running operation
    i,                \* loop index of `for (i, arg) in args...enumerate()`
    used_params,      \* HashSet<usize> of pair_args_with_params
    default_params,   \* HashSet<Identifier> of pair_args_with_params
    done_positional,  \* "a named argument has been seen"
    result,           \* Vec<(&Param, &T)>, as <<param index, arg index>>
    params_used,      \* HashSet<usize> of validate_param_list_ordering
    outcome,          \* the value returned (or the panic raised)
    term_store,       \* GlobalStorage.term_store: TermId -> Term
    params_store,     \* GlobalStorage.params_store: ParamsId -> Params
    args_store,       \* GlobalStorage.args_store: ArgsId -> Args
    scope_store,      \* GlobalStorage.scope_store: ScopeId -> Scope
    nominal_def_store,\* GlobalStorage.nominal_def_store
    mod_def_store,    \* GlobalStorage.mod_def_store
    trt_def_store,    \* GlobalStorage.trt_def_store
    pat_store,        \* GlobalStorage.pat_store: PatId -> Pat
    scopes,           \* LocalStorage.scopes: the stack of active scopes
    simplification_store, \* the cache of simplify_term: TermId -> TermId
    input,            \* the term the run is about
    call_log,         \* the calls of simplify_term so far and what they returned
    TRAIT_COUNTER,    \* the static AtomicU32 of a counter! id type
    thread,           \* per thread: where it is in new() or total(), and the value it holds
    created           \* the ids the completed calls of new() returned, in order of return

pvars == <<fn, params, args, name_map, pc, i, used_params, default_params,
           done_positional, result, params_used, outcome>>

svars == <<term_store, params_store, args_store, scope_store, nominal_def_store,
           mod_def_store, trt_def_store, pat_store, scopes, simplification_store,
           input,
           call_log,
           TRAIT_COUNTER, thread, created>>

cvars == <<TRAIT_COUNTER, thread, created>>

vars == <<pvars, svars>>

-----------------------------------------------------------------------------
(* Bounds of the model *)

MaxParams == 2
MaxArgs == 3

Names == {"a", "b"}
NoName == "none"

-----------------------------------------------------------------------------
(* Parameter lists *)

\* Param { name: Option<Identifier>, default_value: Option<TermId> }: the type
\* of a parameter plays no role in pairing.
ParamSet == [name : Names \cup {NoName}, has_default : BOOLEAN]

\* Arg { name: Option<Identifier>, value }: only the name matters to pairing.
ArgSet == [name : Names \cup {NoName}]

SeqsUpTo(S, n) == UNION {[1..k -> S] : k \in 0..n}

\* `positional().len()`
len(l) == Len(l)

\* `positional().get(i)`
positional(l, idx) == l[idx + 1]

\* Indices of the entries of l that carry `name`.
IndicesOf(l, name) == {idx \in 0..(len(l) - 1) : positional(l, idx).name = name}

Min(S) == CHOOSE x \in S : \A y \in S : x <= y
Max(S) == CHOOSE x \in S : \A y \in S : x >= y

\* ParamList::get_by_name: the index of the entry called `name`, or -1 (None).
\* When several entries carry the name, `how` says which one the list's name
\* map holds.
get_by_name(l, name, how) ==
    IF IndicesOf(l, name) = {} THEN -1
    ELSE IF how = "first" THEN Min(IndicesOf(l, name))
    ELSE Max(IndicesOf(l, name))

\* The threads that create ids, the width of the counter (the u32 of the
\* source, scaled down) and the number of calls of new().
NumThreads == 2
CounterBits == 2
MaxNewCalls == 5
Threads == 1..NumThreads

\* The counter is 0 and no thread is inside new() or total().
NoCounterCalls ==
    /\ TRAIT_COUNTER = 0
    /\ thread = [t \in Threads |-> [pc |-> "idle", val |-> 0, completed |-> 0, fetched |-> 0]]
    /\ created = <<>>

\* Parameter names are unique within a declaration, and a parameter with a
\* default value is named (params.rs:33-35).
WellFormedParams(ps) ==
    /\ \A x, y \in 1..Len(ps) :
          (x # y /\ ps[x].name # NoName) => ps[x].name # ps[y].name
    /\ \A x \in 1..Len(ps) : ps[x].has_default => ps[x].name # NoName

-----------------------------------------------------------------------------
(* Results *)

Running == [kind |-> "Running", index |-> -1, name |-> NoName]
Ok == [kind |-> "Ok", index |-> -1, name |-> NoName]
Panic == [kind |-> "Panic", index |-> -1, name |-> NoName]
ParamGivenTwice(idx) == [kind |-> "ParamGivenTwice", index |-> idx, name |-> NoName]
AmbiguousArgumentOrdering(idx) ==
    [kind |-> "AmbiguousArgumentOrdering", index |-> idx, name |-> NoName]
ParamNotFound(n) == [kind |-> "ParamNotFound", index |-> -1, name |-> n]
MismatchingArgParamLength ==
    [kind |-> "MismatchingArgParamLength", index |-> -1, name |-> NoName]

-----------------------------------------------------------------------------
(* pair_args_with_params *)

InitParams ==
    /\ fn \in {"pair_args_with_params", "validate_param_list_ordering"}
    /\ params \in {ps \in SeqsUpTo(ParamSet, MaxParams) : WellFormedParams(ps)}
    /\ args \in SeqsUpTo(ArgSet, MaxArgs)
    /\ name_map \in {"first", "last"}
    /\ pc = "start"
    /\ i = 0
    /\ used_params = {}
    /\ default_params = {}
    /\ done_positional = FALSE
    /\ result = <<>>
    /\ params_used = {}
    /\ outcome = Running
    /\ NoCounterCalls
    /\ term_store = <<>>
    /\ params_store = <<>>
    /\ args_store = <<>>
    /\ scope_store = <<>>
    /\ nominal_def_store = <<>>
    /\ mod_def_store = <<>>
    /\ trt_def_store = <<>>
    /\ pat_store = <<>>
    /\ scopes = <<>>
    /\ simplification_store = <<>>
    /\ input = 0
    /\ call_log = <<>>

GivenTwiceAtArgument(index, arg_index) == arg_index

\* The index a named error reports (params.rs:57).
NamedGivenTwiceIndex(index, arg_index) == index

NoOrderingTest(done) == FALSE

\* The test of params.rs:83: a named argument came before this positional one.
PositionalAfterNamed(done) == done

\* params.rs:28-46: the set of the names of the parameters with a default.
PairStart ==
    /\ fn = "pair_args_with_params" /\ pc = "start"
    /\ IF \E x \in 1..Len(params) : params[x].has_default /\ params[x].name = NoName
       THEN \* `param.name.unwrap()` on None
            /\ pc' = "done" /\ outcome' = Panic
            /\ UNCHANGED default_params
       ELSE /\ default_params' = {params[x].name : x \in {y \in 1..Len(params) : params[y].has_default}}
            /\ pc' = "loop"
            /\ UNCHANGED outcome
    /\ UNCHANGED <<fn, params, args, name_map, i, used_params, done_positional,
                   result, params_used>>
    /\ UNCHANGED svars

\* params.rs:50-80: one iteration of the loop on a named argument.
PairNamedArg ==
    /\ fn = "pair_args_with_params" /\ pc = "loop" /\ i < len(args)
    /\ positional(args, i).name # NoName
    /\ done_positional' = TRUE
    /\ LET arg_name == positional(args, i).name
           index == get_by_name(params, arg_name, name_map)
       IN IF index = -1
          THEN /\ outcome' = ParamNotFound(arg_name)
               /\ pc' = "done"
               /\ UNCHANGED <<i, used_params, result, default_params>>
          ELSE IF index \in used_params
          THEN /\ outcome' = ParamGivenTwice(NamedGivenTwiceIndex(index, i))
               /\ pc' = "done"
               /\ UNCHANGED <<i, used_params, result, default_params>>
          ELSE /\ used_params' = used_params \cup {index}
               /\ result' = Append(result, <<index, i>>)
               /\ default_params' = default_params \ {arg_name}
               /\ i' = i + 1
               /\ UNCHANGED <<pc, outcome>>
    /\ UNCHANGED <<fn, params, args, name_map, params_used>>
    /\ UNCHANGED svars

\* params.rs:82-104: one iteration of the loop on a positional argument.
PairPositionalArg ==
    /\ fn = "pair_args_with_params" /\ pc = "loop" /\ i < len(args)
    /\ positional(args, i).name = NoName
    /\ IF PositionalAfterNamed(done_positional)
       THEN /\ outcome' = AmbiguousArgumentOrdering(i)
            /\ pc' = "done"
            /\ UNCHANGED <<i, used_params, result, default_params>>
       ELSE IF i \in used_params
       THEN /\ outcome' = ParamGivenTwice(i)
            /\ pc' = "done"
            /\ UNCHANGED <<i, used_params, result, default_params>>
       ELSE IF i >= len(params)
       THEN \* `params.positional().get(i).unwrap()` on None
            /\ outcome' = Panic
            /\ pc' = "done"
            /\ used_params' = used_params \cup {i}
            /\ UNCHANGED <<i, result, default_params>>
       ELSE /\ used_params' = used_params \cup {i}
            /\ result' = Append(result, <<i, i>>)
            /\ default_params' =
                  IF positional(params, i).name # NoName
                  THEN default_params \ {positional(params, i).name}
                  ELSE default_params
            /\ i' = i + 1
            /\ UNCHANGED <<pc, outcome>>
    /\ UNCHANGED <<fn, params, args, name_map, done_positional, params_used>>
    /\ UNCHANGED svars

ArityAtMost(n_params, n_args, n_defaults) == n_params >= n_args + n_defaults

\* The arity test of params.rs:111.
ArityMatches(n_params, n_args, n_defaults) == n_params = n_args + n_defaults

\* params.rs:108-121: the loop is over, compare the lengths.
PairCheckLength ==
    /\ fn = "pair_args_with_params" /\ pc = "loop" /\ i = len(args)
    /\ outcome' = IF ArityMatches(len(params), len(args), Cardinality(default_params))
                  THEN Ok ELSE MismatchingArgParamLength
    /\ pc' = "done"
    /\ UNCHANGED <<fn, params, args, name_map, i, used_params, default_params,
                   done_positional, result, params_used>>
    /\ UNCHANGED svars

-----------------------------------------------------------------------------
(* validate_param_list_ordering, run on the argument list *)

\* params.rs:139-143
ValidateStart ==
    /\ fn = "validate_param_list_ordering" /\ pc = "start"
    /\ pc' = "loop"
    /\ UNCHANGED <<fn, params, args, name_map, i, used_params, default_params,
                   done_positional, result, params_used, outcome>>
    /\ UNCHANGED svars

GivenTwiceAtFound(found_index, index) == found_index

\* The index validate_param_list_ordering reports for a name used twice
\* (params.rs:155).
ValidateGivenTwiceIndex(found_index, index) == index

\* params.rs:148-160: one iteration of the loop on a named entry.
ValidateNamed ==
    /\ fn = "validate_param_list_ordering" /\ pc = "loop" /\ i < len(args)
    /\ positional(args, i).name # NoName
    /\ done_positional' = TRUE
    /\ LET found_index == get_by_name(args, positional(args, i).name, name_map)
       IN IF found_index # -1 /\ found_index \in params_used
          THEN /\ outcome' = ParamGivenTwice(ValidateGivenTwiceIndex(found_index, i))
               /\ pc' = "done"
               /\ UNCHANGED <<i, params_used>>
          ELSE /\ params_used' = IF found_index # -1
                                 THEN params_used \cup {found_index}
                                 ELSE params_used
               /\ i' = i + 1
               /\ UNCHANGED <<pc, outcome>>
    /\ UNCHANGED <<fn, params, args, name_map, used_params, default_params, result>>
    /\ UNCHANGED svars

\* params.rs:161-166: one iteration of the loop on an unnamed entry.
ValidatePositional ==
    /\ fn = "validate_param_list_ordering" /\ pc = "loop" /\ i < len(args)
    /\ positional(args, i).name = NoName
    /\ IF done_positional
       THEN /\ outcome' = AmbiguousArgumentOrdering(i)
            /\ pc' = "done"
            /\ UNCHANGED i
       ELSE /\ i' = i + 1
            /\ UNCHANGED <<pc, outcome>>
    /\ UNCHANGED <<fn, params, args, name_map, used_params, default_params,
                   done_positional, result, params_used>>
    /\ UNCHANGED svars

\* params.rs:170
ValidateFinish ==
    /\ fn = "validate_param_list_ordering" /\ pc = "loop" /\ i = len(args)
    /\ outcome' = Ok
    /\ pc' = "done"
    /\ UNCHANGED <<fn, params, args, name_map, i, used_params, default_params,
                   done_positional, result, params_used>>
    /\ UNCHANGED svars

\* A caller that has paired the arguments with the parameters has the argument
\* list validated next; what the pairing returned is kept in call_log.
ValidateThePairedArgs ==
    /\ fn = "pair_args_with_params" /\ pc = "done" /\ call_log = <<>>
    /\ fn' = "validate_param_list_ordering"
    /\ pc' = "start"
    /\ i' = 0
    /\ done_positional' = FALSE
    /\ outcome' = Running
    /\ call_log' = <<[op |-> "pair_args_with_params", outcome |-> outcome, result |-> result]>>
    /\ UNCHANGED <<params, args, name_map, used_params, default_params, result, params_used>>
    /\ UNCHANGED <<term_store, params_store, args_store, scope_store, nominal_def_store,
                   mod_def_store, trt_def_store, pat_store, scopes, simplification_store,
                   input, cvars>>

NextParams ==
    \/ PairStart
    \/ PairNamedArg
    \/ PairPositionalArg
    \/ PairCheckLength
    \/ ValidateStart
    \/ ValidateNamed
    \/ ValidatePositional
    \/ ValidateFinish
    \/ ValidateThePairedArgs

SpecParams == InitParams /\ [][NextParams]_vars

-----------------------------------------------------------------------------
(* Claims about params.rs *)

PairDone == fn = "pair_args_with_params" /\ pc = "done"
ValidateDone == fn = "validate_param_list_ordering" /\ pc = "done"

Named(l, idx) == positional(l, idx).name # NoName
ArgIndices == 0..(len(args) - 1)

\* The parameters that occur in some entry of `result`.
PairedParams == {result[k][1] : k \in 1..Len(result)}

\* C1: whatever the parameter and argument lists, pair_args_with_params
\* returns Ok(pairs) or one of the four errors ParamGivenTwice,
\* AmbiguousArgumentOrdering, ParamNotFound, MismatchingArgParamLength.
C1_ReturnsResultOrListedError ==
    PairDone =>
        outcome.kind \in {"Ok", "ParamGivenTwice", "AmbiguousArgumentOrdering",
                          "ParamNotFound", "MismatchingArgParamLength"}

\* C2: when pair_args_with_params returns Ok(pairs), pairs has one entry per
\* argument in argument order, no parameter occurs in two entries, and every
\* parameter that occurs in no entry has a default value, so that
\* len(params) = len(args) + the number of unsupplied defaulted parameters.
C2_OkPairsEveryArgument ==
    (PairDone /\ outcome = Ok) =>
        /\ Len(result) = len(args)
        /\ \A k \in 1..Len(result) : result[k][2] = k - 1
        /\ \A k, l \in 1..Len(result) : k # l => result[k][1] # result[l][1]
        /\ PairedParams \subseteq 0..(len(params) - 1)
        /\ \A idx \in (0..(len(params) - 1)) \ PairedParams :
              positional(params, idx).has_default
        /\ len(params) = len(args)
              + Cardinality({idx \in (0..(len(params) - 1)) \ PairedParams :
                                positional(params, idx).has_default})

C2_Witness ==
    /\ PairDone /\ outcome = Ok
    /\ len(args) >= 1 /\ len(params) > len(args)
    /\ \E idx \in ArgIndices : Named(args, idx)

\* C3: an unnamed argument at position p that follows a named argument makes
\* pair_args_with_params return AmbiguousArgumentOrdering with index p, if
\* the loop got as far as p (no earlier argument ended the call).
C3_PositionalAfterNamedIsAmbiguous ==
    PairDone =>
        \A p \in ArgIndices :
            (/\ ~Named(args, p)
             /\ \E j \in 0..(p - 1) : Named(args, j)
             /\ i >= p)
            => outcome = AmbiguousArgumentOrdering(p)

C3_Witness ==
    /\ PairDone /\ i >= 1 /\ i < len(args)
    /\ ~Named(args, i)
    /\ \E j \in 0..(i - 1) : Named(args, j)
    /\ outcome = AmbiguousArgumentOrdering(i)

Offending(l, p) ==
    IF Named(l, p)
    THEN \E j \in 0..(p - 1) : positional(l, j).name = positional(l, p).name
    ELSE \E j \in 0..(p - 1) : Named(l, j)

OffendingSet(l) == {p \in 0..(len(l) - 1) : Offending(l, p)}

\* C5: validate_param_list_ordering returns Ok exactly when no unnamed entry
\* follows a named one and no name is used twice; otherwise it returns the
\* error of the leftmost offending entry, with that entry's position as index.
C5_ValidateOrdering ==
    ValidateDone =>
        IF OffendingSet(args) = {}
        THEN outcome = Ok
        ELSE LET p == Min(OffendingSet(args))
             IN outcome = IF Named(args, p)
                          THEN ParamGivenTwice(p)
                          ELSE AmbiguousArgumentOrdering(p)

C5_Witness ==
    /\ ValidateDone
    /\ len(args) = 3
    /\ outcome = ParamGivenTwice(2)
    /\ positional(args, 0).name = positional(args, 2).name

-----------------------------------------------------------------------------
(* Terms.  A TermId is an index into term_store (1-based); None is 0. *)

None == 0

RECURSIVE Call(_, _)

\* A term is a record with its variant in `tag` and the fields of the variant:
\*   Root, Var{name}, ScopeVar{name, scope, index}, BoundVar{name},
\*   Access{subject, name, op}, Merge{terms}, Union{terms},
\*   TyFn{name, general_params, general_return_ty, cases}, TyFnTy{params, return_ty},
\*   TyFnCall{subject, args}, SetBound{term, scope}, TyOf{term}, Unresolved{resolution_id},
\*   TrtKind (level 3); Trt{trt_def_id}, AnyTy (level 2);
\*   ModDef{mod_def_id}, NominalDef{nominal_def_id}, TupleTy{members},
\*   FnTy{params, return_ty} (level 1);
\*   Rt{ty}, FnLit{fn_ty, return_value}, FnCall{subject, args}, TupleLit{members},
\*   Lit{ty}, Constructed{subject, members}, EnumVariant{enum_def_id, variant_name} (level 0).
\* A case of a TyFn is a record {params, return_ty, return_value}; a scope is
\* {kind, members} with members {name, ty, value, kind}; an argument is {name, value}.

Level0Tags == {"Rt", "FnLit", "FnCall", "TupleLit", "Lit", "Constructed", "EnumVariant"}
Level1Tags == {"ModDef", "NominalDef", "TupleTy", "FnTy"}
Level2Tags == {"Trt", "AnyTy"}

\* Param { name, ty, default_value } and Arg { name, value }
Param(name, ty, default_value) ==
    [name |-> name, ty |-> ty, default_value |-> default_value,
     has_default |-> default_value # None]

\* Member of a scope; `kind` is the way it was declared, which decides
\* is_closed_and_non_bound.


-----------------------------------------------------------------------------
(* Storage: the stores, the scope stack and the simplification cache, threaded
   through the operations as one record. *)

Storage(ts, ps, as, ss, ns, ms, rs, pats, stack, cache) ==
    [term_store |-> ts, params_store |-> ps, args_store |-> as, scope_store |-> ss,
     nominal_def_store |-> ns, mod_def_store |-> ms, trt_def_store |-> rs, pat_store |-> pats,
     scopes |-> stack, simplification_store |-> cache,
     \* the BoundVar lookups of apply_set_bound_to_term_rec that have not returned
     resolving |-> {}]



\* The id the store gave to the entity created last.

\* PrimitiveBuilder: every create_* appends to a store.
create_term(st, term) == [st EXCEPT !.term_store = Append(@, term)]
create_params(st, ps) == [st EXCEPT !.params_store = Append(@, ps)]
create_args(st, as) == [st EXCEPT !.args_store = Append(@, as)]
create_scope(st, kind, members) ==
    [st EXCEPT !.scope_store = Append(@, [kind |-> kind, members |-> members])]

\* Results of the operations of the type checker: TcResult<Option<Id>> next to
\* the storage the operation leaves behind.  kind is "Ok", "Err" or "Panic".
\* An error is its kind and the name it is about.
TcError(kind, name) == [kind |-> kind, name |-> name]
NoError == TcError("", NoName)
Res(st, kind, val, err) == [st |-> st, kind |-> kind, val |-> val, err |-> err]
Some(st, id) == Res(st, "Ok", id, NoError)
NoChange(st) == Res(st, "Ok", None, NoError)
Fail(st, kind, name) == Res(st, "Err", None, TcError(kind, name))
tc_panic(st) == Res(st, "Panic", None, NoError)
\* A recursion that never returns: the stack overflows and the process aborts.
stack_overflow(st) == Res(st, "Panic", None, TcError("StackOverflow", NoName))
IsOk(r) == r.kind = "Ok"
\* `r?` followed by `.unwrap_or(id)`
unwrap_or(r, id) == IF r.val = None THEN id ELSE r.val

-----------------------------------------------------------------------------
(* Scope manager *)

MemberIndices(scope, name) ==
    {k \in 0..(Len(scope.members) - 1) : scope.members[k + 1].name = name}

\* Scope::get(name): the member called `name` and its index, index -1 if none.
scope_get(scope, name) ==
    IF MemberIndices(scope, name) = {} THEN -1 ELSE Min(MemberIndices(scope, name))

RECURSIVE resolve_from(_, _, _)
resolve_from(st, name, depth) ==
    IF depth = 0 THEN [found |-> FALSE, scope_id |-> None, index |-> -1]
    ELSE LET sid == st.scopes[depth]
             idx == scope_get(st.scope_store[sid], name)
         IN IF idx # -1 THEN [found |-> TRUE, scope_id |-> sid, index |-> idx]
            ELSE resolve_from(st, name, depth - 1)

\* Walks the stack from the innermost scope outwards; the first match wins.
resolve_name_in_scopes(st, name) == resolve_from(st, name, Len(st.scopes))

get_scope_var_member(st, var) == st.scope_store[var.scope].members[var.index + 1]

is_closed_and_non_bound(member) == member.kind \in {"Constant", "SetBound"}

\* enter_scope(scope, f) is push_scope, f, pop_scope: `leave_scope` restores
\* the stack the caller had on every exit path.
push_scope(st, scope) == [st EXCEPT !.scopes = Append(@, scope)]
leave_scope(r, st) == [r EXCEPT !.st.scopes = st.scopes]


RECURSIVE MapBoundMembers(_)
MapBoundMembers(ps) ==
    IF ps = <<>> THEN <<>>
    ELSE <<[name |-> Head(ps).name, ty |-> Head(ps).ty, value |-> None, kind |-> "Bound"]>> \o MapBoundMembers(Tail(ps))

\* A Bound scope whose members mirror the parameters, without values.
make_bound_scope(st, params_id) ==
    create_scope(st, "Bound", MapBoundMembers(SelectSeq(st.params_store[params_id], LAMBDA p : p.name # NoName)))

-----------------------------------------------------------------------------
(* pair_args_with_params as one function: the loop of params.rs:47-106 from
   argument k on, then the arity test.  `res` lists <<param index, arg index>>. *)

DefaultNames(ps) == {ps[x].name : x \in {y \in 1..Len(ps) : ps[y].has_default}}

RECURSIVE pair_loop(_, _, _, _, _, _, _)
pair_loop(ps, as, k, used, defaults, done, res) ==
    IF k = len(as)
    THEN IF ArityMatches(len(ps), len(as), Cardinality(defaults))
         THEN [outcome |-> Ok, result |-> res]
         ELSE [outcome |-> MismatchingArgParamLength, result |-> <<>>]
    ELSE LET arg_name == positional(as, k).name
             index == get_by_name(ps, arg_name, "first")
         IN IF arg_name # NoName
            THEN IF index = -1
                 THEN [outcome |-> ParamNotFound(arg_name), result |-> <<>>]
                 ELSE IF index \in used
                 THEN [outcome |-> ParamGivenTwice(NamedGivenTwiceIndex(index, k)),
                       result |-> <<>>]
                 ELSE pair_loop(ps, as, k + 1, used \cup {index}, defaults \ {arg_name},
                                TRUE, Append(res, <<index, k>>))
            ELSE IF PositionalAfterNamed(done)
                 THEN [outcome |-> AmbiguousArgumentOrdering(k), result |-> <<>>]
                 ELSE IF k \in used
                 THEN [outcome |-> ParamGivenTwice(k), result |-> <<>>]
                 ELSE IF k >= len(ps)
                 THEN [outcome |-> Panic, result |-> <<>>]
                 ELSE pair_loop(ps, as, k + 1, used \cup {k},
                                defaults \ {positional(ps, k).name}, done,
                                Append(res, <<k, k>>))

pair_args_with_params(ps, as) ==
    IF \E x \in 1..Len(ps) : ps[x].has_default /\ ps[x].name = NoName
    THEN [outcome |-> Panic, result |-> <<>>]
    ELSE pair_loop(ps, as, 0, {}, DefaultNames(ps), FALSE, <<>>)

RECURSIVE MapSetBoundMembers(_, _, _)
MapSetBoundMembers(ps, as, pairs) ==
    IF pairs = <<>> THEN <<>>
    ELSE LET param == positional(ps, Head(pairs)[1])
             arg == positional(as, Head(pairs)[2])
             rest == MapSetBoundMembers(ps, as, Tail(pairs))
         IN IF param.name = NoName THEN rest
            ELSE <<[name |-> param.name, ty |-> param.ty, value |-> arg.value, kind |-> "SetBound"]>> \o rest

\* A SetBound scope that maps the name of each paired parameter to the value
\* of its argument.  The callers have paired the lists successfully before.
make_set_bound_scope(st, params_id, args_id) ==
    LET ps == st.params_store[params_id]
        as == st.args_store[args_id]
    IN create_scope(st, "SetBound",
                    MapSetBoundMembers(ps, as, pair_args_with_params(ps, as).result))

-----------------------------------------------------------------------------
(* Discoverer: free bound variables (discover.rs:257-556) *)

Range(s) == {s[k] : k \in 1..Len(s)}


add_free_bound_vars_in_params_to_set(st, params_id) ==
    UNION {Call("add_free_bound_vars_in_term_to_set", <<st, p.ty>>) \cup
             (IF p.default_value # None
              THEN Call("add_free_bound_vars_in_term_to_set", <<st, p.default_value>>) ELSE {})
           : p \in Range(st.params_store[params_id])}

add_param_vars_as_bound_vars_to_set(st, params_id) ==
    {p.name : p \in {q \in Range(st.params_store[params_id]) : q.name # NoName}}

add_free_bound_vars_in_args_to_set(st, args_id) ==
    UNION {Call("add_free_bound_vars_in_term_to_set", <<st, a.value>>) : a \in Range(st.args_store[args_id])}

add_free_bound_vars_in_scope_to_set(st, scope_id) ==
    UNION {(IF m.ty # None THEN Call("add_free_bound_vars_in_term_to_set", <<st, m.ty>>) ELSE {}) \cup
           (IF m.value # None THEN Call("add_free_bound_vars_in_term_to_set", <<st, m.value>>) ELSE {})
           : m \in Range(st.scope_store[scope_id].members)}

add_free_bound_vars_in_level0_term_to_set(st, term) ==
    CASE term.tag = "Rt" -> Call("add_free_bound_vars_in_term_to_set", <<st, term.ty>>)
      [] term.tag = "FnLit" ->
            Call("add_free_bound_vars_in_term_to_set", <<st, term.fn_ty>>) \cup
            Call("add_free_bound_vars_in_term_to_set", <<st, term.return_value>>)
      [] term.tag = "FnCall" ->
            Call("add_free_bound_vars_in_term_to_set", <<st, term.subject>>) \cup
            add_free_bound_vars_in_args_to_set(st, term.args)
      [] term.tag = "TupleLit" -> add_free_bound_vars_in_args_to_set(st, term.members)
      [] term.tag = "Constructed" ->
            Call("add_free_bound_vars_in_term_to_set", <<st, term.subject>>) \cup
            add_free_bound_vars_in_args_to_set(st, term.members)
      [] OTHER -> {}

add_free_bound_vars_in_level2_term_to_set(st, term) ==
    IF term.tag = "Trt"
    THEN add_free_bound_vars_in_scope_to_set(st, st.trt_def_store[term.trt_def_id].members)
    ELSE {}

add_free_bound_vars_in_level1_term_to_set(st, term) ==
    CASE term.tag = "ModDef" ->
            add_free_bound_vars_in_scope_to_set(st, st.mod_def_store[term.mod_def_id].members)
      [] term.tag = "NominalDef" ->
            LET def == st.nominal_def_store[term.nominal_def_id]
            IN IF def.kind = "Struct" /\ def.fields # None
               THEN add_free_bound_vars_in_params_to_set(st, def.fields)
               ELSE {}
      [] term.tag = "TupleTy" -> add_free_bound_vars_in_params_to_set(st, term.members)
      [] term.tag = "FnTy" ->
            add_free_bound_vars_in_params_to_set(st, term.params) \cup
            Call("add_free_bound_vars_in_term_to_set", <<st, term.return_ty>>)

add_free_bound_vars_in_term_to_set(st, term_id) ==
    LET term == st.term_store[term_id]
    IN CASE term.tag = "BoundVar" -> {term.name}
         [] term.tag = "Access" -> Call("add_free_bound_vars_in_term_to_set", <<st, term.subject>>)
         [] term.tag \in {"Merge", "Union"} ->
               UNION {Call("add_free_bound_vars_in_term_to_set", <<st, x>>) : x \in Range(term.terms)}
         [] term.tag = "TyFn" ->
               LET ty_fn_params_result ==
                       add_free_bound_vars_in_params_to_set(st, term.general_params) \cup
                       UNION {add_free_bound_vars_in_params_to_set(st, c.params)
                              : c \in Range(term.cases)}
                   ty_fn_bound_vars_due_to_params ==
                       add_param_vars_as_bound_vars_to_set(st, term.general_params) \cup
                       UNION {add_param_vars_as_bound_vars_to_set(st, c.params)
                              : c \in Range(term.cases)}
                   ty_fn_result ==
                       Call("add_free_bound_vars_in_term_to_set", <<st, term.general_return_ty>>) \cup
                       UNION {Call("add_free_bound_vars_in_term_to_set", <<st, c.return_ty>>) \cup
                              Call("add_free_bound_vars_in_term_to_set", <<st, c.return_value>>)
                              : c \in Range(term.cases)}
               IN (ty_fn_result \ ty_fn_bound_vars_due_to_params) \cup ty_fn_params_result
         [] term.tag = "TyFnTy" ->
               (Call("add_free_bound_vars_in_term_to_set", <<st, term.return_ty>>)
                  \ add_param_vars_as_bound_vars_to_set(st, term.params))
               \cup add_free_bound_vars_in_params_to_set(st, term.params)
         [] term.tag = "TyFnCall" ->
               Call("add_free_bound_vars_in_term_to_set", <<st, term.subject>>) \cup
               add_free_bound_vars_in_args_to_set(st, term.args)
         [] term.tag = "SetBound" ->
               add_free_bound_vars_in_scope_to_set(st, term.scope) \cup
               Call("add_free_bound_vars_in_term_to_set", <<st, term.term>>)
         [] term.tag = "TyOf" -> Call("add_free_bound_vars_in_term_to_set", <<st, term.term>>)
         [] term.tag \in Level2Tags -> add_free_bound_vars_in_level2_term_to_set(st, term)
         [] term.tag \in Level1Tags -> add_free_bound_vars_in_level1_term_to_set(st, term)
         [] term.tag \in Level0Tags -> add_free_bound_vars_in_level0_term_to_set(st, term)
         [] OTHER -> {}

get_free_bound_vars_in_term(st, term_id) == Call("add_free_bound_vars_in_term_to_set", <<st, term_id>>)

(* ---- Free substitution variables (discover.rs:40-263) ---- *)

\* `(*unresolved).into()`: the SubVar of an Unresolved term.
SubVar(unresolved) ==
    [kind |-> "Unresolved", name |-> NoName, resolution_id |-> unresolved.resolution_id]

add_free_sub_vars_in_params_to_set(st, params_id) ==
    UNION {Call("add_free_sub_vars_in_term_to_set", <<st, p.ty>>) \cup
             (IF p.default_value # None
              THEN Call("add_free_sub_vars_in_term_to_set", <<st, p.default_value>>) ELSE {})
           : p \in Range(st.params_store[params_id])}

add_free_sub_vars_in_args_to_set(st, args_id) ==
    UNION {Call("add_free_sub_vars_in_term_to_set", <<st, a.value>>)
           : a \in Range(st.args_store[args_id])}

add_free_sub_vars_in_level0_term_to_set(st, term) ==
    CASE term.tag = "Rt" -> Call("add_free_sub_vars_in_term_to_set", <<st, term.ty>>)
      [] term.tag = "FnLit" ->
            Call("add_free_sub_vars_in_term_to_set", <<st, term.fn_ty>>) \cup
            Call("add_free_sub_vars_in_term_to_set", <<st, term.return_value>>)
      [] term.tag = "FnCall" ->
            Call("add_free_sub_vars_in_term_to_set", <<st, term.subject>>) \cup
            add_free_sub_vars_in_args_to_set(st, term.args)
      [] term.tag = "TupleLit" -> add_free_sub_vars_in_args_to_set(st, term.members)
      [] term.tag = "Constructed" ->
            Call("add_free_sub_vars_in_term_to_set", <<st, term.subject>>) \cup
            add_free_sub_vars_in_args_to_set(st, term.members)
      [] OTHER -> {}

add_free_sub_vars_in_level1_term_to_set(st, term) ==
    CASE term.tag = "TupleTy" -> add_free_sub_vars_in_params_to_set(st, term.members)
      [] term.tag = "FnTy" ->
            add_free_sub_vars_in_params_to_set(st, term.params) \cup
            Call("add_free_sub_vars_in_term_to_set", <<st, term.return_ty>>)
      [] OTHER -> {}

\* Level 2 and level 3 terms, Var, Root, ScopeVar and BoundVar add nothing
\* (discover.rs:125-145, 221).
add_free_sub_vars_in_term_to_set(st, term_id) ==
    LET term == st.term_store[term_id]
    IN CASE term.tag = "Unresolved" -> {SubVar(term)}
         [] term.tag = "Access" -> Call("add_free_sub_vars_in_term_to_set", <<st, term.subject>>)
         [] term.tag \in {"Merge", "Union"} ->
               UNION {Call("add_free_sub_vars_in_term_to_set", <<st, x>>) : x \in Range(term.terms)}
         [] term.tag = "TyFn" ->
               add_free_sub_vars_in_params_to_set(st, term.general_params) \cup
               Call("add_free_sub_vars_in_term_to_set", <<st, term.general_return_ty>>) \cup
               UNION {add_free_sub_vars_in_params_to_set(st, c.params) \cup
                      Call("add_free_sub_vars_in_term_to_set", <<st, c.return_ty>>) \cup
                      Call("add_free_sub_vars_in_term_to_set", <<st, c.return_value>>)
                      : c \in Range(term.cases)}
         [] term.tag = "TyFnTy" ->
               add_free_sub_vars_in_params_to_set(st, term.params) \cup
               Call("add_free_sub_vars_in_term_to_set", <<st, term.return_ty>>)
         [] term.tag = "TyFnCall" ->
               Call("add_free_sub_vars_in_term_to_set", <<st, term.subject>>) \cup
               add_free_sub_vars_in_args_to_set(st, term.args)
         [] term.tag = "SetBound" -> Call("add_free_sub_vars_in_term_to_set", <<st, term.term>>)
         [] term.tag = "TyOf" -> Call("add_free_sub_vars_in_term_to_set", <<st, term.term>>)
         [] term.tag \in Level1Tags -> add_free_sub_vars_in_level1_term_to_set(st, term)
         [] term.tag \in Level0Tags -> add_free_sub_vars_in_level0_term_to_set(st, term)
         [] OTHER -> {}

get_free_sub_vars_in_term(st, term_id) ==
    Call("add_free_sub_vars_in_term_to_set", <<st, term_id>>)

\* Sub::range: the terms the variables of the substitution are mapped to.
sub_range(sub) == {sub[v] : v \in DOMAIN sub}

\* intermediate_result and domain_vars are both collected from sub.range()
\* (discover.rs:228-245).
add_free_sub_vars_in_sub_to_set(st, sub) ==
    LET intermediate_result == UNION {get_free_sub_vars_in_term(st, r) : r \in sub_range(sub)}
        domain_vars == UNION {get_free_sub_vars_in_term(st, d) : d \in sub_range(sub)}
    IN intermediate_result \ domain_vars

get_free_sub_vars_in_sub(st, sub) == add_free_sub_vars_in_sub_to_set(st, sub)

-----------------------------------------------------------------------------
(* Discoverer: applying a set bound to a term (discover.rs:558-1113) *)

\* Result of an operation over a list of terms: the storage, the terms (or
\* the id of the list built from them) and whether any of them changed.
ResList(st, kind, ids, id, changed, err) ==
    [st |-> st, kind |-> kind, ids |-> ids, id |-> id, changed |-> changed, err |-> err]

\* The terms of a parameter list in the order they are visited: the type,
\* then the default value (None if absent) of each parameter.
RECURSIVE ParamTerms(_)
ParamTerms(ps) ==
    IF ps = <<>> THEN <<>>
    ELSE <<Head(ps).ty, Head(ps).default_value>> \o ParamTerms(Tail(ps))

RebuildParams(ps, ids) ==
    [k \in 1..Len(ps) |-> Param(ps[k].name, ids[2 * k - 1], ids[2 * k])]

RECURSIVE ArgTerms(_)
ArgTerms(as) == IF as = <<>> THEN <<>> ELSE <<Head(as).value>> \o ArgTerms(Tail(as))

RebuildArgs(as, ids) == [k \in 1..Len(as) |-> [name |-> as[k].name, value |-> ids[k]]]

\* ScopeManager::filter_scope: a new SetBound scope with the members whose
\* name is in `names`.
filter_scope(st, scope_id, names) ==
    create_scope(st, "SetBound",
                 SelectSeq(st.scope_store[scope_id].members, LAMBDA m : m.name \in names))


RECURSIVE apply_set_bound_to_terms_with_flag(_, _, _, _)

\* apply_set_bound_to_term_with_flag over a list of terms, left to right.
apply_set_bound_to_terms_with_flag(st, scope_id, ids, ignore_bound_vars) ==
    IF ids = <<>> THEN ResList(st, "Ok", <<>>, None, FALSE, NoError)
    ELSE IF Head(ids) = None
    THEN LET rest == apply_set_bound_to_terms_with_flag(st, scope_id, Tail(ids),
                                                        ignore_bound_vars)
         IN [rest EXCEPT !.ids = <<None>> \o @]
    ELSE LET r == Call("apply_set_bound_to_term_rec", <<st, scope_id, Head(ids), ignore_bound_vars>>)
         IN IF ~IsOk(r) THEN ResList(r.st, r.kind, <<>>, None, FALSE, r.err)
            ELSE LET rest == apply_set_bound_to_terms_with_flag(r.st, scope_id, Tail(ids),
                                                                ignore_bound_vars)
                 IN [rest EXCEPT !.ids = <<unwrap_or(r, Head(ids))>> \o @,
                                 !.changed = @ \/ r.val # None]

apply_set_bound_to_params_with_flag(st, scope_id, params_id, ignore_bound_vars) ==
    LET ps == st.params_store[params_id]
        r == apply_set_bound_to_terms_with_flag(st, scope_id, ParamTerms(ps),
                                                ignore_bound_vars)
        st1 == create_params(r.st, RebuildParams(ps, r.ids))
    IN IF r.kind # "Ok" THEN r ELSE [r EXCEPT !.st = st1, !.id = Len(st1.params_store)]

apply_set_bound_to_args_with_flag(st, scope_id, args_id, ignore_bound_vars) ==
    LET as == st.args_store[args_id]
        r == apply_set_bound_to_terms_with_flag(st, scope_id, ArgTerms(as),
                                                ignore_bound_vars)
        st1 == create_args(r.st, RebuildArgs(as, r.ids))
    IN IF r.kind # "Ok" THEN r ELSE [r EXCEPT !.st = st1, !.id = Len(st1.args_store)]

\* `if !applied_once { Ok(None) } else { Ok(Some(create(term))) }`
CreateIfApplied(r, changed, term) ==
    IF r.kind # "Ok" THEN Res(r.st, r.kind, None, r.err)
    ELSE IF ~changed THEN NoChange(r.st)
    ELSE LET st1 == create_term(r.st, term) IN Some(st1, Len(st1.term_store))

\* The set of names the cases of a type function ignore (discover.rs:839-847).
CaseIgnoreSet(st, ty_fn, case) == add_param_vars_as_bound_vars_to_set(st, ty_fn.general_params)

\* The cases of a type function from case k on (discover.rs:833-873).
RECURSIVE apply_set_bound_to_cases(_, _, _, _, _, _)
apply_set_bound_to_cases(st, scope_id, ty_fn, k, ignore_bound_vars, acc) ==
    IF k > Len(ty_fn.cases) THEN acc
    ELSE LET case == ty_fn.cases[k]
             new_ignore_bound_vars == ignore_bound_vars \cup CaseIgnoreSet(st, ty_fn, case)
             ps == Call("apply_set_bound_to_params_with_flag", <<st, scope_id, case.params, ignore_bound_vars>>)
             rs == apply_set_bound_to_terms_with_flag(ps.st, scope_id,
                       <<case.return_ty, case.return_value>>, new_ignore_bound_vars)
         IN IF ps.kind # "Ok" THEN [acc EXCEPT !.st = ps.st, !.kind = ps.kind]
            ELSE IF rs.kind # "Ok" THEN [acc EXCEPT !.st = rs.st, !.kind = rs.kind]
            ELSE apply_set_bound_to_cases(rs.st, scope_id, ty_fn, k + 1, ignore_bound_vars,
                     [acc EXCEPT !.st = rs.st,
                                 !.ids = Append(@, [params |-> ps.id, return_ty |-> rs.ids[1],
                                                    return_value |-> rs.ids[2]]),
                                 !.changed = @ \/ ps.changed \/ rs.changed])

apply_set_bound_to_term_rec(st, scope_id, term_id, ignore_bound_vars) ==
    LET term == st.term_store[term_id]
        scope == st.scope_store[scope_id]
    IN CASE term.tag = "BoundVar" ->
            IF term.name \in ignore_bound_vars THEN NoChange(st)
            ELSE IF scope_get(scope, term.name) = -1 THEN NoChange(st)
            ELSE LET value == scope.members[scope_get(scope, term.name) + 1].value
                     \* the same lookup, entered again before it returned, is
                     \* entered without end
                     lookup == <<scope_id, term_id, ignore_bound_vars>>
                     r == Call("apply_set_bound_to_term_rec",
                               <<[st EXCEPT !.resolving = @ \cup {lookup}], scope_id, value,
                                 ignore_bound_vars>>)
                 IN IF value = None THEN tc_panic(st)
                    ELSE IF lookup \in st.resolving THEN stack_overflow(st)
                    ELSE IF ~IsOk(r) THEN [r EXCEPT !.st.resolving = st.resolving]
                    ELSE Some([r.st EXCEPT !.resolving = st.resolving], unwrap_or(r, value))
         [] term.tag = "Access" ->
            LET r == Call("apply_set_bound_to_term_rec", <<st, scope_id, term.subject, ignore_bound_vars>>)
            IN CreateIfApplied(r, r.val # None, [tag |-> "Access", subject |-> r.val,
                                                 name |-> term.name, op |-> term.op])
         [] term.tag \in {"Merge", "Union"} ->
            LET r == apply_set_bound_to_terms_with_flag(st, scope_id, term.terms,
                                                        ignore_bound_vars)
            IN CreateIfApplied(r, r.changed, [term EXCEPT !.terms = r.ids])
         [] term.tag = "TyFn" ->
            LET new_ignore_bound_vars ==
                    ignore_bound_vars \cup
                    add_param_vars_as_bound_vars_to_set(st, term.general_params)
                gp == Call("apply_set_bound_to_params_with_flag", <<st, scope_id, term.general_params, ignore_bound_vars>>)
                gr == apply_set_bound_to_terms_with_flag(gp.st, scope_id,
                          <<term.general_return_ty>>, new_ignore_bound_vars)
                cs == apply_set_bound_to_cases(gr.st, scope_id, term, 1, ignore_bound_vars,
                          ResList(gr.st, "Ok", <<>>, None, FALSE, NoError))
            IN IF gp.kind # "Ok" THEN Res(gp.st, gp.kind, None, gp.err)
               ELSE IF gr.kind # "Ok" THEN Res(gr.st, gr.kind, None, gr.err)
               ELSE CreateIfApplied(cs, gp.changed \/ gr.changed \/ cs.changed,
                        [tag |-> "TyFn", name |-> term.name, general_params |-> gp.id,
                         general_return_ty |-> gr.ids[1], cases |-> cs.ids])
         [] term.tag \in {"TyFnTy", "FnTy"} ->
            LET new_ignore_bound_vars ==
                    IF term.tag = "TyFnTy"
                    THEN ignore_bound_vars \cup
                         add_param_vars_as_bound_vars_to_set(st, term.params)
                    ELSE ignore_bound_vars
                ps == Call("apply_set_bound_to_params_with_flag", <<st, scope_id, term.params, ignore_bound_vars>>)
                rt == apply_set_bound_to_terms_with_flag(ps.st, scope_id,
                          <<term.return_ty>>, new_ignore_bound_vars)
            IN IF ps.kind # "Ok" THEN Res(ps.st, ps.kind, None, ps.err)
               ELSE CreateIfApplied(rt, ps.changed \/ rt.changed,
                        [term EXCEPT !.params = ps.id, !.return_ty = rt.ids[1]])
         [] term.tag \in {"TyFnCall", "FnCall"} ->
            LET sj == apply_set_bound_to_terms_with_flag(st, scope_id, <<term.subject>>,
                                                         ignore_bound_vars)
                as == Call("apply_set_bound_to_args_with_flag", <<sj.st, scope_id, term.args, ignore_bound_vars>>)
            IN IF sj.kind # "Ok" THEN Res(sj.st, sj.kind, None, sj.err)
               ELSE CreateIfApplied(as, sj.changed \/ as.changed,
                        [term EXCEPT !.subject = sj.ids[1], !.args = as.id])
         [] term.tag = "TyOf" ->
            LET r == Call("apply_set_bound_to_term_rec", <<st, scope_id, term.term, ignore_bound_vars>>)
            IN CreateIfApplied(r, r.val # None, [tag |-> "TyOf", term |-> r.val])
         [] term.tag = "TupleTy" ->
            LET ps == Call("apply_set_bound_to_params_with_flag", <<st, scope_id, term.members, ignore_bound_vars>>)
            IN CreateIfApplied(ps, ps.changed, [tag |-> "TupleTy", members |-> ps.id])
         [] term.tag = "Rt" ->
            LET r == Call("apply_set_bound_to_term_rec", <<st, scope_id, term.ty, ignore_bound_vars>>)
            IN CreateIfApplied(r, r.val # None, [tag |-> "Rt", ty |-> r.val])
         [] term.tag = "FnLit" ->
            LET r == apply_set_bound_to_terms_with_flag(st, scope_id,
                         <<term.fn_ty, term.return_value>>, ignore_bound_vars)
            IN CreateIfApplied(r, r.changed, [tag |-> "FnLit", fn_ty |-> r.ids[1],
                                              return_value |-> r.ids[2]])
         [] term.tag = "TupleLit" ->
            LET as == Call("apply_set_bound_to_args_with_flag", <<st, scope_id, term.members, ignore_bound_vars>>)
            IN CreateIfApplied(as, as.changed, [tag |-> "TupleLit", members |-> as.id])
         [] term.tag = "Constructed" ->
            LET sj == apply_set_bound_to_terms_with_flag(st, scope_id, <<term.subject>>,
                                                         ignore_bound_vars)
                as == Call("apply_set_bound_to_args_with_flag", <<sj.st, scope_id, term.members, ignore_bound_vars>>)
            IN IF sj.kind # "Ok" THEN Res(sj.st, sj.kind, None, sj.err)
               ELSE CreateIfApplied(as, sj.changed \/ as.changed,
                        [tag |-> "Constructed", subject |-> sj.ids[1], members |-> as.id])
         [] term.tag \in {"ModDef", "NominalDef", "Trt", "SetBound"} ->
            LET vars_in_term == get_free_bound_vars_in_term(st, term_id)
                st1 == filter_scope(st, scope_id, vars_in_term)
                st2 == create_term(st1, [tag |-> "SetBound", term |-> term_id,
                                         scope |-> Len(st1.scope_store)])
            IN IF {m.name : m \in Range(scope.members)} \cap vars_in_term = {} THEN NoChange(st)
               ELSE Some(st2, Len(st2.term_store))
         [] OTHER -> NoChange(st)

potentially_apply_set_bound_to_term(st, scope_id, term_id) ==
    LET r == Call("apply_set_bound_to_term_rec", <<st, scope_id, term_id, {}>>)
    IN IF ~IsOk(r) THEN r ELSE Some(r.st, unwrap_or(r, term_id))

apply_set_bound_to_term(st, scope_id, term_id) ==
    Call("apply_set_bound_to_term_rec", <<st, scope_id, term_id, {}>>)

-----------------------------------------------------------------------------
(* The structure of a term: the term with every id replaced by the structure
   of what it names.  Two ids name equal terms iff their structures agree. *)


RECURSIVE TreesOf(_, _)
TreesOf(st, ids) ==
    IF ids = <<>> THEN <<>>
    ELSE <<IF Head(ids) = None THEN [tag |-> "None"] ELSE Call("TermTree", <<st, Head(ids)>>)>>
         \o TreesOf(st, Tail(ids))

ParamsTree(st, params_id) ==
    LET ps == st.params_store[params_id]
        trees == TreesOf(st, ParamTerms(ps))
    IN [k \in 1..Len(ps) |->
          [name |-> ps[k].name, ty |-> trees[2 * k - 1], default_value |-> trees[2 * k]]]

ArgsTree(st, args_id) ==
    LET as == st.args_store[args_id]
        trees == TreesOf(st, ArgTerms(as))
    IN [k \in 1..Len(as) |-> [name |-> as[k].name, value |-> trees[k]]]

RECURSIVE MemberTerms(_)
MemberTerms(ms) ==
    IF ms = <<>> THEN <<>> ELSE <<Head(ms).value>> \o MemberTerms(Tail(ms))

ScopeTree(st, scope_id) ==
    LET ms == st.scope_store[scope_id].members
        trees == TreesOf(st, MemberTerms(ms))
    IN [k \in 1..Len(ms) |-> [name |-> ms[k].name, value |-> trees[k]]]

RECURSIVE CasesTree(_, _)
CasesTree(st, cases) ==
    IF cases = <<>> THEN <<>>
    ELSE <<[params |-> ParamsTree(st, Head(cases).params),
            return_ty |-> Call("TermTree", <<st, Head(cases).return_ty>>),
            return_value |-> Call("TermTree", <<st, Head(cases).return_value>>)]>>
         \o CasesTree(st, Tail(cases))

TermTree(st, term_id) ==
    LET term == st.term_store[term_id]
    IN CASE term.tag \in {"Merge", "Union"} -> [term EXCEPT !.terms = TreesOf(st, @)]
         [] term.tag = "Access" -> [term EXCEPT !.subject = Call("TermTree", <<st, @>>)]
         [] term.tag = "TyFn" ->
               [term EXCEPT !.general_params = ParamsTree(st, @),
                            !.general_return_ty = Call("TermTree", <<st, @>>),
                            !.cases = CasesTree(st, @)]
         [] term.tag \in {"TyFnTy", "FnTy"} ->
               [term EXCEPT !.params = ParamsTree(st, @), !.return_ty = Call("TermTree", <<st, @>>)]
         [] term.tag \in {"TyFnCall", "FnCall"} ->
               [term EXCEPT !.subject = Call("TermTree", <<st, @>>), !.args = ArgsTree(st, @)]
         [] term.tag = "SetBound" ->
               [term EXCEPT !.term = Call("TermTree", <<st, @>>), !.scope = ScopeTree(st, @)]
         [] term.tag = "TyOf" -> [term EXCEPT !.term = Call("TermTree", <<st, @>>)]
         [] term.tag = "TupleTy" -> [term EXCEPT !.members = ParamsTree(st, @)]
         [] term.tag = "Rt" -> [term EXCEPT !.ty = Call("TermTree", <<st, @>>)]
         [] term.tag = "FnLit" ->
               [term EXCEPT !.fn_ty = Call("TermTree", <<st, @>>), !.return_value = Call("TermTree", <<st, @>>)]
         [] term.tag = "TupleLit" -> [term EXCEPT !.members = ArgsTree(st, @)]
         [] term.tag = "Constructed" ->
               [term EXCEPT !.subject = Call("TermTree", <<st, @>>), !.members = ArgsTree(st, @)]
         [] OTHER -> term

\* Unifier::terms_are_equal: the two terms have the same structure.
terms_are_equal(st, a, b) == Call("TermTree", <<st, a>>) = Call("TermTree", <<st, b>>)

-----------------------------------------------------------------------------
(* Substituter: a substitution maps resolution ids of Unresolved terms to
   terms; applying it replaces every occurrence of a mapped variable. *)

EmptySub == <<>>
SubOf(u, term_id) == u :> term_id
\* Sequential composition: first s1, then s2.
ComposeSubs(s1, s2) == s1 @@ s2

RECURSIVE apply_sub_to_terms(_, _, _)
apply_sub_to_terms(st, sub, ids) ==
    IF ids = <<>> THEN ResList(st, "Ok", <<>>, None, FALSE, NoError)
    ELSE IF Head(ids) = None
    THEN LET rest == apply_sub_to_terms(st, sub, Tail(ids))
         IN [rest EXCEPT !.ids = <<None>> \o @]
    ELSE LET r == Call("apply_sub_to_term", <<st, sub, Head(ids)>>)
             rest == apply_sub_to_terms(r.st, sub, Tail(ids))
         IN [rest EXCEPT !.ids = <<r.val>> \o @, !.changed = @ \/ r.val # Head(ids)]

\* Substituter::apply_sub_to_params: the id of the substituted list (the list
\* itself when no type changes).
apply_sub_to_params(st, sub, params_id) ==
    LET ps == st.params_store[params_id]
        r == apply_sub_to_terms(st, sub, ParamTerms(ps))
        st1 == create_params(r.st, RebuildParams(ps, r.ids))
    IN IF r.changed THEN [r EXCEPT !.st = st1, !.id = Len(st1.params_store)]
       ELSE [r EXCEPT !.id = params_id]

CreateIfSubbed(r, changed, term_id, term) ==
    IF ~changed THEN Some(r.st, term_id)
    ELSE LET st1 == create_term(r.st, term) IN Some(st1, Len(st1.term_store))

\* Substituter::apply_sub_to_term: always produces a term (the term itself
\* when it mentions no substituted variable).
apply_sub_to_term(st, sub, term_id) ==
    LET term == st.term_store[term_id]
    IN CASE term.tag = "Unresolved" ->
            IF term.resolution_id \in (DOMAIN sub)
            THEN Some(st, sub[term.resolution_id]) ELSE Some(st, term_id)
         [] term.tag \in {"Merge", "Union"} ->
            LET r == apply_sub_to_terms(st, sub, term.terms)
            IN CreateIfSubbed(r, r.changed, term_id, [term EXCEPT !.terms = r.ids])
         [] term.tag = "Rt" ->
            LET r == Call("apply_sub_to_term", <<st, sub, term.ty>>)
            IN CreateIfSubbed(r, r.val # term.ty, term_id, [tag |-> "Rt", ty |-> r.val])
         [] term.tag = "TyOf" ->
            LET r == Call("apply_sub_to_term", <<st, sub, term.term>>)
            IN CreateIfSubbed(r, r.val # term.term, term_id, [tag |-> "TyOf", term |-> r.val])
         [] term.tag = "Access" ->
            LET r == Call("apply_sub_to_term", <<st, sub, term.subject>>)
            IN CreateIfSubbed(r, r.val # term.subject, term_id,
                              [tag |-> "Access", subject |-> r.val, name |-> term.name,
                               op |-> term.op])
         [] term.tag = "FnTy" ->
            LET ps == Call("apply_sub_to_params", <<st, sub, term.params>>)
                rt == Call("apply_sub_to_term", <<ps.st, sub, term.return_ty>>)
            IN CreateIfSubbed(rt, ps.changed \/ rt.val # term.return_ty, term_id,
                              [tag |-> "FnTy", params |-> ps.id, return_ty |-> rt.val])
         [] term.tag = "TupleTy" ->
            LET ps == Call("apply_sub_to_params", <<st, sub, term.members>>)
            IN CreateIfSubbed(ps, ps.changed, term_id, [tag |-> "TupleTy", members |-> ps.id])
         [] OTHER -> Some(st, term_id)

\* The resolution ids of the Unresolved terms in a structure.
RECURSIVE UnresolvedIn(_, _)
UnresolvedIn(st, term_id) ==
    LET term == st.term_store[term_id]
    IN CASE term.tag = "Unresolved" -> {term.resolution_id}
         [] term.tag \in {"Merge", "Union"} ->
               UNION {UnresolvedIn(st, x) : x \in Range(term.terms)}
         [] term.tag = "Rt" -> UnresolvedIn(st, term.ty)
         [] term.tag = "TyOf" -> UnresolvedIn(st, term.term)
         [] term.tag = "Access" -> UnresolvedIn(st, term.subject)
         [] term.tag = "FnTy" ->
               UnresolvedIn(st, term.return_ty) \cup
               UNION {UnresolvedIn(st, p.ty) : p \in Range(st.params_store[term.params])}
         [] term.tag = "TupleTy" ->
               UNION {UnresolvedIn(st, p.ty) : p \in Range(st.params_store[term.members])}
         [] OTHER -> {}

-----------------------------------------------------------------------------
(* Simplifier, with the typer, the validator and the unifier it calls. *)


\* `Ok(self.simplify_term(term_id)?.unwrap_or(term_id))`
potentially_simplify_term(st, term_id) ==
    LET r == Call("simplify_term", <<st, term_id>>)
    IN IF ~IsOk(r) THEN r ELSE Some(r.st, unwrap_or(r, term_id))

\* simplify_term over a list of terms, left to right: the simplified terms
\* (the term itself where nothing changed) and whether any changed.
RECURSIVE simplify_terms(_, _)
simplify_terms(st, ids) ==
    IF ids = <<>> THEN ResList(st, "Ok", <<>>, None, FALSE, NoError)
    ELSE IF Head(ids) = None
    THEN LET rest == simplify_terms(st, Tail(ids)) IN [rest EXCEPT !.ids = <<None>> \o @]
    ELSE LET r == Call("simplify_term", <<st, Head(ids)>>)
         IN IF ~IsOk(r) THEN ResList(r.st, r.kind, <<>>, None, FALSE, r.err)
            ELSE LET rest == simplify_terms(r.st, Tail(ids))
                 IN [rest EXCEPT !.ids = <<unwrap_or(r, Head(ids))>> \o @,
                                 !.changed = @ \/ r.val # None]

\* `r?` on a list result, turned into a result without a value.
Propagate(r) == Res(r.st, r.kind, None, r.err)

\* `Ok(Some(create_term(term)))`
Created(st, term) == LET st1 == create_term(st, term) IN Some(st1, Len(st1.term_store))

(* ---- Typer::infer_ty_of_term ---- *)

RECURSIVE infer_tys_of_terms(_, _)
infer_tys_of_terms(st, ids) ==
    IF ids = <<>> THEN ResList(st, "Ok", <<>>, None, FALSE, NoError)
    ELSE LET r == Call("infer_ty_of_term", <<st, Head(ids)>>)
         IN IF ~IsOk(r) THEN ResList(r.st, r.kind, <<>>, None, FALSE, r.err)
            ELSE LET rest == infer_tys_of_terms(r.st, Tail(ids))
                 IN [rest EXCEPT !.ids = <<r.val>> \o @]

infer_ty_of_term(st, term_id) ==
    LET term == st.term_store[term_id]
    IN CASE term.tag = "Lit" -> Created(st, [tag |-> "NominalDef", nominal_def_id |-> term.ty])
         [] term.tag = "Rt" -> Some(st, term.ty)
         [] term.tag = "FnLit" -> Some(st, term.fn_ty)
         [] term.tag = "TupleLit" ->
            LET as == st.args_store[term.members]
                r == infer_tys_of_terms(st, ArgTerms(as))
                st1 == create_params(r.st, [k \in 1..Len(as) |-> Param(as[k].name, r.ids[k], None)])
            IN IF r.kind # "Ok" THEN Propagate(r) ELSE Created(st1, [tag |-> "TupleTy", members |-> Len(st1.params_store)])
         [] term.tag = "Constructed" -> Some(st, term.subject)
         [] term.tag = "EnumVariant" -> Created(st, [tag |-> "NominalDef",
                                                     nominal_def_id |-> term.enum_def_id])
         [] term.tag = "ModDef" ->
            LET origin == st.mod_def_store[term.mod_def_id].origin
            IN IF origin.kind = "TrtImpl" THEN Some(st, origin.trt) ELSE Created(st, [tag |-> "AnyTy"])
         [] term.tag \in {"NominalDef", "TupleTy", "FnTy"} -> Created(st, [tag |-> "AnyTy"])
         [] term.tag \in {"Trt", "AnyTy"} -> Created(st, [tag |-> "TrtKind"])
         [] term.tag = "TrtKind" -> Created(st, [tag |-> "Root"])
         [] term.tag = "TyFn" ->
            Created(st, [tag |-> "TyFnTy", params |-> term.general_params,
                         return_ty |-> term.general_return_ty])
         [] term.tag = "SetBound" ->
            LET r == leave_scope(Call("infer_ty_of_term", <<push_scope(st, term.scope), term.term>>), st)
            IN IF ~IsOk(r) THEN r ELSE Created(r.st, [tag |-> "SetBound", term |-> r.val,
                                                      scope |-> term.scope])
         [] term.tag \in {"Merge", "Union"} ->
            LET r == infer_tys_of_terms(st, term.terms)
            IN IF r.kind # "Ok" THEN Propagate(r)
               ELSE Created(r.st, [term EXCEPT !.terms = r.ids])
         [] term.tag = "ScopeVar" /\ get_scope_var_member(st, term).value = None ->
            IF get_scope_var_member(st, term).ty # None
            THEN Some(st, get_scope_var_member(st, term).ty)
            ELSE Fail(st, "NeedMoreTypeAnnotationsToResolve", NoName)
         [] term.tag = "BoundVar" ->
            LET m == resolve_name_in_scopes(st, term.name)
            IN IF m.found /\ st.scope_store[m.scope_id].members[m.index + 1].ty # None
               THEN Some(st, st.scope_store[m.scope_id].members[m.index + 1].ty)
               ELSE Fail(st, "NeedMoreTypeAnnotationsToResolve", NoName)
         [] term.tag \in {"Var", "ScopeVar", "Access", "TyFnCall", "TyOf", "FnCall"} ->
            \* simplify, then infer the type of what it became
            LET r == Call("simplify_term", <<st, term_id>>)
            IN IF ~IsOk(r) THEN r
               ELSE IF r.val = None
               THEN Fail(r.st, "NeedMoreTypeAnnotationsToResolve", NoName)
               ELSE Call("infer_ty_of_term", <<r.st, r.val>>)
         [] OTHER -> Fail(st, "NeedMoreTypeAnnotationsToResolve", NoName)

(* ---- Validator::term_is_fn_ty ---- *)

\* Some(id of the Level1::Fn term) if the term reduces to a function type,
\* looking through set bounds; None otherwise.
term_is_fn_ty(st, term_id) ==
    LET s == Call("potentially_simplify_term", <<st, term_id>>)
        term == s.st.term_store[s.val]
    IN IF ~IsOk(s) THEN s
       ELSE IF term.tag = "FnTy" THEN Some(s.st, s.val)
       ELSE IF term.tag = "SetBound"
       THEN leave_scope(Call("term_is_fn_ty", <<push_scope(s.st, term.scope), term.term>>), s.st)
       ELSE NoChange(s.st)

(* ---- Unifier ---- *)

ResSub(st, kind, sub, err) == [st |-> st, kind |-> kind, sub |-> sub, err |-> err]

\* `other` against every term of `ids` (all = TRUE: every one must unify and
\* the substitutions compose; all = FALSE: the first that unifies decides).
RECURSIVE unify_with_each(_, _, _, _, _)
unify_with_each(st, ids, other, all, sub) ==
    IF ids = <<>>
    THEN IF all THEN ResSub(st, "Ok", sub, NoError)
         ELSE ResSub(st, "Err", EmptySub, TcError("CannotUnify", NoName))
    ELSE LET r == Call("unify_terms", <<st, Head(ids), other>>)
         IN IF r.kind = "Panic" THEN r
            ELSE IF all
            THEN IF r.kind # "Ok" THEN r
                 ELSE unify_with_each(r.st, Tail(ids), other, all, ComposeSubs(sub, r.sub))
            ELSE IF r.kind = "Ok" THEN r
                 ELSE unify_with_each(r.st, Tail(ids), other, all, sub)

unify_terms(st, src_id, target_id) ==
    LET s == Call("potentially_simplify_term", <<st, src_id>>)
        t == Call("potentially_simplify_term", <<s.st, target_id>>)
        src == t.st.term_store[s.val]
        target == t.st.term_store[t.val]
        cannot_unify == ResSub(t.st, "Err", EmptySub, TcError("CannotUnify", NoName))
    IN IF ~IsOk(s) THEN ResSub(s.st, s.kind, EmptySub, s.err)
       ELSE IF ~IsOk(t) THEN ResSub(t.st, t.kind, EmptySub, t.err)
       ELSE IF terms_are_equal(t.st, s.val, t.val) THEN ResSub(t.st, "Ok", EmptySub, NoError)
       ELSE IF src.tag = "Unresolved"
       THEN IF src.resolution_id \in UnresolvedIn(t.st, t.val)
            THEN ResSub(t.st, "Err", EmptySub,
                        TcError("NeedMoreTypeAnnotationsToResolve", NoName))
            ELSE ResSub(t.st, "Ok", SubOf(src.resolution_id, t.val), NoError)
       ELSE IF target.tag = "Unresolved"
       THEN IF target.resolution_id \in UnresolvedIn(t.st, s.val)
            THEN ResSub(t.st, "Err", EmptySub,
                        TcError("NeedMoreTypeAnnotationsToResolve", NoName))
            ELSE ResSub(t.st, "Ok", SubOf(target.resolution_id, s.val), NoError)
       ELSE IF src.tag \in {"Merge", "Union"}
       THEN unify_with_each(t.st, src.terms, t.val, src.tag = "Merge", EmptySub)
       ELSE IF target.tag \in {"Merge", "Union"}
       THEN unify_with_each(t.st, target.terms, s.val, target.tag = "Merge", EmptySub)
       ELSE IF (src.tag = "AnyTy" /\ target.tag \in Level2Tags)
               \/ (target.tag = "AnyTy" /\ src.tag \in Level2Tags)
       THEN ResSub(t.st, "Ok", EmptySub, NoError)
       ELSE cannot_unify

\* Pairs the arguments with the parameters, then unifies the type of each
\* argument with the type of its parameter.
RECURSIVE unify_pairs(_, _, _, _, _)
unify_pairs(st, ps, as, pairs, sub) ==
    IF pairs = <<>> THEN ResSub(st, "Ok", sub, NoError)
    ELSE LET param == positional(ps, Head(pairs)[1])
             arg == positional(as, Head(pairs)[2])
             ty == Call("infer_ty_of_term", <<st, arg.value>>)
             r == Call("unify_terms", <<ty.st, ty.val, param.ty>>)
         IN IF ~IsOk(ty) THEN ResSub(ty.st, ty.kind, EmptySub, ty.err)
            ELSE IF r.kind # "Ok" THEN r
            ELSE unify_pairs(r.st, ps, as, Tail(pairs), ComposeSubs(sub, r.sub))

unify_params_with_args(st, params_id, args_id) ==
    LET ps == st.params_store[params_id]
        as == st.args_store[args_id]
        paired == pair_args_with_params(ps, as)
    IN IF paired.outcome = Panic THEN ResSub(st, "Panic", EmptySub, NoError)
       ELSE IF paired.outcome # Ok
       THEN ResSub(st, "Err", EmptySub, TcError(paired.outcome.kind, paired.outcome.name))
       ELSE unify_pairs(st, ps, as, paired.result, EmptySub)

(* ---- Access (simplify.rs:112-534) ---- *)

RECURSIVE apply_access_to_level0_term(_, _, _, _, _)

does_not_support_access(st, name) == Fail(st, "UnsupportedPropertyAccess", name)
name_not_found(st, name) == Fail(st, "UnresolvedNameInValue", name)

\* Every operator is let through.
AnyOpIsSupported(op) == FALSE

\* does_not_support_prop_access and does_not_support_ns_access return an error
\* (simplify.rs:48-68).
does_not_support_prop_access(op) == op = "Property"
does_not_support_ns_access(op) == op = "Namespace"

\* turn_unresolved_var_err_into_unresolved_in_value_err
MapUnresolvedVarErr(r, name) ==
    IF r.kind = "Err" /\ r.err = TcError("UnresolvedVariable", name)
    THEN [r EXCEPT !.err = TcError("UnresolvedNameInValue", name)]
    ELSE r

\* The return type of the synthesised method type (simplify.rs:154-165).
MethodReturnTy(return_ty, subbed_return_ty) == return_ty

Skip1(s) == IF s = <<>> THEN <<>> ELSE Tail(s)

turn_accessed_ty_and_subject_ty_into_method(st, accessed_ty, subject_ty, name) ==
    LET f == Call("term_is_fn_ty", <<st, accessed_ty>>)
        fn_ty == f.st.term_store[f.val]
        ps == f.st.params_store[fn_ty.params]
        u == Call("unify_terms", <<f.st, subject_ty, positional(ps, 0).ty>>)
        subbed_params == Call("apply_sub_to_params", <<u.st, u.sub, fn_ty.params>>)
        subbed_return_ty == Call("apply_sub_to_term", <<subbed_params.st, u.sub, fn_ty.return_ty>>)
        st1 == create_params(subbed_return_ty.st,
                             Skip1(subbed_params.st.params_store[subbed_params.id]))
        st2 == create_term(st1, [tag |-> "FnTy", params |-> Len(st1.params_store),
                                 return_ty |-> MethodReturnTy(fn_ty.return_ty, subbed_return_ty.val)])
    IN IF ~IsOk(f) THEN f
       ELSE IF f.val = None THEN Fail(f.st, "InvalidPropertyAccessOfNonMethod", name)
       ELSE IF len(ps) = 0 THEN Fail(f.st, "InvalidPropertyAccessOfNonMethod", name)
       ELSE IF u.kind # "Ok" THEN Res(u.st, u.kind, None, u.err)
       ELSE Created(st2, [tag |-> "Rt", ty |-> Len(st2.term_store)])

\* The field of the arms of a merge, first arm first (simplify.rs:197-208).
RECURSIVE FirstFieldOfArms(_, _, _)
FirstFieldOfArms(st, ids, field_name) ==
    IF ids = <<>> THEN NoChange(st)
    ELSE LET r == Call("access_struct_or_tuple_field", <<st, Head(ids), field_name>>)
         IN IF ~IsOk(r) \/ r.val # None THEN r
            ELSE FirstFieldOfArms(r.st, Tail(ids), field_name)

FieldOfParams(st, params_id, field_name) ==
    LET fields == st.params_store[params_id]
        idx == get_by_name(fields, field_name, "first")
    IN IF idx = -1 THEN NoChange(st) ELSE Created(st, [tag |-> "Rt",
                                                       ty |-> positional(fields, idx).ty])

access_struct_or_tuple_field(st, rt_term_ty_id, field_name) ==
    LET term == st.term_store[rt_term_ty_id]
    IN CASE term.tag = "SetBound" ->
            LET r == leave_scope(Call("access_struct_or_tuple_field", <<push_scope(st, term.scope), term.term, field_name>>), st)
            IN IF ~IsOk(r) \/ r.val = None THEN r
               ELSE Call("potentially_apply_set_bound_to_term", <<r.st, term.scope, r.val>>)
         [] term.tag = "Merge" -> FirstFieldOfArms(st, term.terms, field_name)
         [] term.tag = "NominalDef" ->
            LET def == st.nominal_def_store[term.nominal_def_id]
            IN IF def.kind = "Struct" /\ def.fields # None
               THEN FieldOfParams(st, def.fields, field_name)
               ELSE NoChange(st)
         [] term.tag = "TupleTy" -> FieldOfParams(st, term.members, field_name)
         [] OTHER -> NoChange(st)

apply_access_to_level0_term(st, term, subject, name, op) ==
    CASE term.tag = "Rt" ->
            LET field == Call("access_struct_or_tuple_field", <<st, term.ty, name>>)
                ty_access_result == Call("apply_access_term", <<field.st, term.ty, name, "Namespace">>)
                ty_of_ty_access_result ==
                    Call("infer_ty_of_term", <<ty_access_result.st, ty_access_result.val>>)
                ty_of_ty_term_id == Call("infer_ty_of_term", <<ty_access_result.st, term.ty>>)
                accessed_result ==
                    Call("apply_access_term", <<ty_of_ty_term_id.st, ty_of_ty_term_id.val, name, "Namespace">>)
            IN IF does_not_support_ns_access(op) THEN Fail(st, "UnsupportedNamespaceAccess", name)
               ELSE IF ~IsOk(field) \/ field.val # None THEN field
               ELSE IF ty_access_result.kind = "Panic" THEN ty_access_result
               ELSE IF IsOk(ty_access_result) /\ ty_access_result.val # None
               THEN IF ~IsOk(ty_of_ty_access_result) THEN ty_of_ty_access_result
                    ELSE turn_accessed_ty_and_subject_ty_into_method(
                             ty_of_ty_access_result.st, ty_of_ty_access_result.val,
                             term.ty, name)
               ELSE IF ~IsOk(ty_of_ty_term_id) THEN ty_of_ty_term_id
               ELSE IF ~IsOk(accessed_result) THEN accessed_result
               ELSE IF accessed_result.val = None THEN name_not_found(accessed_result.st, name)
               ELSE turn_accessed_ty_and_subject_ty_into_method(
                        accessed_result.st, accessed_result.val, term.ty, name)
      [] term.tag \in {"EnumVariant", "FnLit"} -> does_not_support_access(st, name)
      [] term.tag = "FnCall" -> tc_panic(st)
      [] term.tag \in {"Constructed", "TupleLit"} ->
            LET tuple_members == st.args_store[term.members]
                idx == get_by_name(tuple_members, name, "first")
            IN IF idx = -1 THEN name_not_found(st, name)
               ELSE Some(st, positional(tuple_members, idx).value)
      [] term.tag = "Lit" ->
            LET ty == Call("infer_ty_of_term", <<st, subject>>)
                st1 == create_term(ty.st, [tag |-> "Rt", ty |-> ty.val])
            IN IF ~IsOk(ty) THEN ty
               ELSE apply_access_to_level0_term(st1, [tag |-> "Rt", ty |-> ty.val], Len(st1.term_store), name, op)

VariantIndices(def, name) == {k \in 1..Len(def.variants) : def.variants[k].name = name}

apply_access_to_level1_term(st, term, name, op) ==
    CASE term.tag = "ModDef" ->
            LET mod_def_scope == st.mod_def_store[term.mod_def_id].members
                st1 == create_term(push_scope(st, mod_def_scope), [tag |-> "Var", name |-> name])
            IN IF does_not_support_prop_access(op) THEN does_not_support_access(st, name)
               ELSE leave_scope(MapUnresolvedVarErr(Call("simplify_term", <<st1, Len(st1.term_store)>>), name),
                                st)
      [] term.tag = "NominalDef" ->
            LET def == st.nominal_def_store[term.nominal_def_id]
            IN IF def.kind = "Struct" THEN does_not_support_access(st, name)
               ELSE IF does_not_support_prop_access(op) THEN does_not_support_access(st, name)
               ELSE IF VariantIndices(def, name) = {} THEN name_not_found(st, name)
               ELSE Created(st, [tag |-> "EnumVariant", enum_def_id |-> term.nominal_def_id,
                                 variant_name |-> name])
      [] term.tag \in {"TupleTy", "FnTy"} -> does_not_support_access(st, name)

apply_access_to_level2_term(st, term, name, op) ==
    IF term.tag = "Trt"
    THEN LET trt_def_scope == st.trt_def_store[term.trt_def_id].members
             st1 == create_term(push_scope(st, trt_def_scope), [tag |-> "Var", name |-> name])
         IN IF does_not_support_prop_access(op) THEN does_not_support_access(st, name)
            ELSE leave_scope(MapUnresolvedVarErr(Call("infer_ty_of_term", <<st1, Len(st1.term_store)>>), name),
                             st)
    ELSE does_not_support_access(st, name)

\* The arms are kept as they are.
KeepArms(st, ids, name, op) == ResList(st, "Ok", ids, None, FALSE, NoError)

\* The access applied to each arm of a union: `?` on errors, the arm itself
\* where the access changes nothing (simplify.rs:456-463).
RECURSIVE access_union_arms(_, _, _, _)
access_union_arms(st, ids, name, op) ==
    IF ids = <<>> THEN ResList(st, "Ok", <<>>, None, FALSE, NoError)
    ELSE LET r == Call("apply_access_term", <<st, Head(ids), name, op>>)
         IN IF ~IsOk(r) THEN ResList(r.st, r.kind, <<>>, None, FALSE, r.err)
            ELSE LET rest == access_union_arms(r.st, Tail(ids), name, op)
                 IN [rest EXCEPT !.ids = <<unwrap_or(r, Head(ids))>> \o @]

\* The access applied to each arm as to the arms of a union.
AccessArmsOrFail(st, ids, name, op) == access_union_arms(st, ids, name, op)

\* The arms of a merge that the access applies to (simplify.rs:471-477):
\* `.ok().flatten()` drops the errors and the unchanged arms.
RECURSIVE access_merge_arms(_, _, _, _)
access_merge_arms(st, ids, name, op) ==
    IF ids = <<>> THEN ResList(st, "Ok", <<>>, None, FALSE, NoError)
    ELSE LET r == Call("apply_access_term", <<st, Head(ids), name, op>>)
         IN IF r.kind = "Panic" THEN ResList(r.st, r.kind, <<>>, None, FALSE, r.err)
            ELSE LET rest == access_merge_arms(r.st, Tail(ids), name, op)
                 IN IF IsOk(r) /\ r.val # None
                    THEN [rest EXCEPT !.ids = <<r.val>> \o @]
                    ELSE rest

apply_access_term(st, subject, name, op) ==
    LET s == Call("potentially_simplify_term", <<st, subject>>)
        simplified_subject_id == s.val
        term == s.st.term_store[simplified_subject_id]
    IN IF ~IsOk(s) THEN s
       ELSE CASE term.tag = "Union" ->
                LET r == access_union_arms(s.st, term.terms, name, op)
                    st1 == create_term(r.st, [tag |-> "Union", terms |-> r.ids])
                IN IF r.kind # "Ok" THEN Propagate(r)
                   ELSE Call("potentially_simplify_term", <<st1, Len(st1.term_store)>>)
             [] term.tag = "Merge" ->
                LET r == access_merge_arms(s.st, term.terms, name, op)
                IN IF r.kind # "Ok" THEN Propagate(r)
                   ELSE IF Len(r.ids) = 0 THEN NoChange(r.st)
                   ELSE IF Len(r.ids) = 1 THEN Some(r.st, r.ids[1])
                   ELSE Res(r.st, "Err", None,
                            [kind |-> "AmbiguousAccess", name |-> name, results |-> r.ids])
             [] term.tag = "SetBound" ->
                LET r == leave_scope(Call("apply_access_term", <<push_scope(s.st, term.scope), term.term, name, op>>), s.st)
                IN IF ~IsOk(r) \/ r.val = None THEN r
                   ELSE Call("potentially_apply_set_bound_to_term", <<r.st, term.scope, r.val>>)
             [] term.tag \in {"TrtKind"} -> does_not_support_access(s.st, name)
             [] term.tag \in Level2Tags -> apply_access_to_level2_term(s.st, term, name, op)
             [] term.tag \in Level1Tags -> apply_access_to_level1_term(s.st, term, name, op)
             [] term.tag \in Level0Tags ->
                apply_access_to_level0_term(s.st, term, simplified_subject_id, name, op)
             [] term.tag \in {"TyFn", "TyFnTy", "Root", "TyOf", "Unresolved"} ->
                does_not_support_access(s.st, name)
             [] OTHER -> NoChange(s.st)

(* ---- Type function application (simplify.rs:537-651) ---- *)

\* The error of a case that does not apply is dropped.
DropError(errors, err) == errors

\* errors.push(err) (simplify.rs:590-593)
push_error(errors, err) == Append(errors, err)

\* Only the first case is looked at, and its return value is taken as written.
FirstCaseAsWritten(st, cases, k, args_id, results, errors) ==
    [st |-> st, kind |-> "Ok", results |-> <<cases[1].return_value>>, errors |-> <<>>,
     err |-> NoError]

\* The cases of the type function from case k on (simplify.rs:570-596): the
\* results of the cases whose parameters unify with the arguments, and the
\* errors of the others.
RECURSIVE apply_ty_fn_cases(_, _, _, _, _, _)
apply_ty_fn_cases(st, cases, k, args_id, results, errors) ==
    IF k > Len(cases)
    THEN [st |-> st, kind |-> "Ok", results |-> results, errors |-> errors, err |-> NoError]
    ELSE LET case == cases[k]
             u == Call("unify_params_with_args", <<st, case.params, args_id>>)
             st1 == make_set_bound_scope(u.st, case.params, args_id)
             r == Call("potentially_apply_set_bound_to_term", <<st1, Len(st1.scope_store), case.return_value>>)
         IN IF u.kind = "Panic"
            THEN [st |-> u.st, kind |-> "Panic", results |-> <<>>, errors |-> <<>>, err |-> NoError]
            ELSE IF u.kind = "Err"
            THEN apply_ty_fn_cases(u.st, cases, k + 1, args_id, results, push_error(errors, u.err))
            ELSE IF ~IsOk(r)
            THEN [st |-> r.st, kind |-> r.kind, results |-> <<>>, errors |-> <<>>, err |-> r.err]
            ELSE apply_ty_fn_cases(r.st, cases, k + 1, args_id, Append(results, r.val), errors)

simplify_args(st, args_id) ==
    LET as == st.args_store[args_id]
        r == simplify_terms(st, ArgTerms(as))
        st1 == create_args(r.st, RebuildArgs(as, r.ids))
    IN IF r.kind # "Ok" THEN Propagate(r)
       ELSE IF r.changed THEN Some(st1, Len(st1.args_store))
       ELSE NoChange(r.st)

simplify_params(st, params_id) ==
    LET ps == st.params_store[params_id]
        r == simplify_terms(st, ParamTerms(ps))
        st1 == create_params(r.st, RebuildParams(ps, r.ids))
    IN IF r.kind # "Ok" THEN Propagate(r)
       ELSE IF r.changed THEN Some(st1, Len(st1.params_store))
       ELSE NoChange(r.st)

apply_ty_fn(st, apply) ==
    LET s == Call("simplify_term", <<st, apply.subject>>)
        subject_simplified == s.val # None
        simplified_subject_id == unwrap_or(s, apply.subject)
        ty_fn == s.st.term_store[simplified_subject_id]
        cannot_apply == Fail(s.st, "UnsupportedTyFnApplication", NoName)
    IN IF ~IsOk(s) THEN s
       ELSE CASE ty_fn.tag = "TyFn" ->
                LET g == Call("unify_params_with_args", <<s.st, ty_fn.general_params, apply.args>>)
                    r == apply_ty_fn_cases(g.st, ty_fn.cases, 1, apply.args, <<>>, <<>>)
                IN IF g.kind # "Ok" THEN Res(g.st, g.kind, None, g.err)
                   ELSE IF r.kind # "Ok" THEN Propagate(r)
                   ELSE IF r.results = <<>>
                   THEN Res(r.st, "Err", None,
                            [kind |-> "InvalidTyFnApplication", name |-> NoName,
                             unification_errors |-> r.errors])
                   ELSE Created(r.st, [tag |-> "Merge", terms |-> r.results])
             [] ty_fn.tag \in {"Access", "Var", "TyFnCall"} ->
                LET simplified_args == Call("simplify_args", <<s.st, apply.args>>)
                IN IF ~IsOk(simplified_args) THEN simplified_args
                   ELSE IF simplified_args.val # None
                   THEN Created(simplified_args.st,
                                [tag |-> "TyFnCall", subject |-> simplified_subject_id,
                                 args |-> simplified_args.val])
                   ELSE IF subject_simplified
                   THEN Created(simplified_args.st,
                                [tag |-> "TyFnCall", subject |-> simplified_subject_id,
                                 args |-> apply.args])
                   ELSE NoChange(simplified_args.st)
             [] OTHER -> cannot_apply

(* ---- Merge and union lists (simplify.rs:1181-1245) ---- *)

\* Simplifies each term and flattens the nested lists of the same kind.
RECURSIVE flatten_terms(_, _, _)
flatten_terms(st, ids, nested_tag) ==
    IF ids = <<>> THEN ResList(st, "Ok", <<>>, None, FALSE, NoError)
    ELSE LET r == Call("simplify_term", <<st, Head(ids)>>)
             simplified_term_id == unwrap_or(r, Head(ids))
             term == r.st.term_store[simplified_term_id]
             rest == flatten_terms(r.st, Tail(ids), nested_tag)
         IN IF ~IsOk(r) THEN ResList(r.st, r.kind, <<>>, None, FALSE, r.err)
            ELSE IF term.tag = nested_tag
            THEN [rest EXCEPT !.ids = term.terms \o @, !.changed = TRUE]
            ELSE [rest EXCEPT !.ids = <<simplified_term_id>> \o @,
                              !.changed = @ \/ r.val # None]

\* No term is dropped.
NothingDropped(st, flattened) == {}

\* The second term of a pair of equal terms is dropped.
DroppedIndices(st, flattened) ==
    {second \in 1..Len(flattened) :
        \E first \in 1..(second - 1) : terms_are_equal(st, flattened[first], flattened[second])}

RECURSIVE KeepFrom(_, _, _)
KeepFrom(flattened, k, dropped) ==
    IF k > Len(flattened) THEN <<>>
    ELSE (IF k \in dropped THEN <<>> ELSE <<flattened[k]>>) \o KeepFrom(flattened, k + 1, dropped)

simplify_algebraic_term_list(st, term_list, nested_tag) ==
    LET f == flatten_terms(st, term_list, nested_tag)
        dropped == DroppedIndices(f.st, f.ids)
    IN IF f.kind # "Ok" THEN f
       ELSE [f EXCEPT !.ids = KeepFrom(f.ids, 1, dropped), !.changed = @ \/ dropped # {}]

(* ---- Function calls (simplify.rs:655-948, 985-1019) ---- *)

is_term_constructable(st, term_id) ==
    LET term == st.term_store[term_id]
    IN CASE term.tag = "Merge" -> \E x \in Range(term.terms) : Call("is_term_constructable", <<st, x>>)
         [] term.tag = "SetBound" -> Call("is_term_constructable", <<st, term.term>>)
         [] term.tag = "NominalDef" -> TRUE
         [] OTHER -> FALSE

\* A result that carries two ids: a function type (params, return_ty) or a
\* constructed term (subject, members).
ResTwo(st, kind, fst, snd, err) ==
    [st |-> st, kind |-> kind, fst |-> fst, snd |-> snd, err |-> err]
InvalidCallSubject(st) == ResTwo(st, "Err", None, None, TcError("InvalidCallSubject", NoName))
PanicTwo(st) == ResTwo(st, "Panic", None, None, NoError)

\* The arguments aligned with the parameters, defaults filled in.
ArgsFromParams(ps, as, pairs) ==
    [k \in 1..Len(ps) |->
        IF \E x \in 1..Len(pairs) : pairs[x][1] = k - 1
        THEN [name |-> ps[k].name,
              value |-> positional(as, pairs[CHOOSE x \in 1..Len(pairs) : pairs[x][1] = k - 1][2]).value]
        ELSE [name |-> ps[k].name, value |-> ps[k].default_value]]

\* Typer::infer_args_from_params
infer_args_from_params(st, args_id, params_id) ==
    LET ps == st.params_store[params_id]
        as == st.args_store[args_id]
        paired == pair_args_with_params(ps, as)
        st1 == create_args(st, ArgsFromParams(ps, as, paired.result))
    IN IF paired.outcome = Panic THEN tc_panic(st)
       ELSE IF paired.outcome # Ok THEN Fail(st, paired.outcome.kind, paired.outcome.name)
       ELSE Some(st1, Len(st1.args_store))

RECURSIVE constructed_arms(_, _, _, _)
\* The arms of the merge that can be constructed (errors are dropped).
constructed_arms(st, ids, args_id, results) ==
    IF ids = <<>> THEN [st |-> st, kind |-> "Ok", results |-> results]
    ELSE LET r == Call("use_term_as_constructed_subject", <<st, Head(ids), args_id>>)
         IN IF r.kind = "Panic" THEN [st |-> r.st, kind |-> "Panic", results |-> <<>>]
            ELSE constructed_arms(r.st, Tail(ids), args_id,
                                  IF r.kind = "Ok" THEN Append(results, r) ELSE results)

use_term_as_constructed_subject(st, term_id, args_id) ==
    LET term == st.term_store[term_id]
    IN CASE term.tag = "Merge" ->
            LET arms == constructed_arms(st, term.terms, args_id, <<>>)
            IN IF arms.kind = "Panic" THEN PanicTwo(arms.st)
               ELSE IF Len(arms.results) = 0 THEN InvalidCallSubject(arms.st)
               ELSE IF Len(arms.results) = 1
               THEN ResTwo(arms.st, "Ok", term_id, arms.results[1].snd, NoError)
               ELSE PanicTwo(arms.st)
         [] term.tag = "SetBound" ->
            LET r == Call("use_term_as_constructed_subject", <<push_scope(st, term.scope), term.term, args_id>>)
                members == Call("apply_set_bound_to_args_with_flag", <<[r.st EXCEPT !.scopes = st.scopes], term.scope, r.snd, {}>>)
                subject == Call("potentially_apply_set_bound_to_term", <<members.st, term.scope, r.fst>>)
            IN IF r.kind # "Ok" THEN [r EXCEPT !.st.scopes = st.scopes]
               ELSE IF members.kind # "Ok" THEN PanicTwo(members.st)
               ELSE IF ~IsOk(subject) THEN PanicTwo(subject.st)
               ELSE ResTwo(subject.st, "Ok", subject.val, members.id, NoError)
         [] term.tag = "NominalDef" ->
            LET def == st.nominal_def_store[term.nominal_def_id]
                members == infer_args_from_params(st, args_id, def.fields)
            IN IF def.kind # "Struct" \/ def.fields = None THEN InvalidCallSubject(st)
               ELSE IF ~IsOk(members) THEN ResTwo(members.st, members.kind, None, None,
                                                  members.err)
               ELSE ResTwo(members.st, "Ok", term_id, members.val, NoError)
         [] OTHER -> InvalidCallSubject(st)

RECURSIVE fn_call_arms(_, _, _, _)
\* The arms of the merge that can be called, each with its index.
fn_call_arms(st, ids, k, results) ==
    IF k > Len(ids) THEN [st |-> st, kind |-> "Ok", results |-> results]
    ELSE LET r == Call("use_term_as_fn_call_subject", <<st, ids[k]>>)
         IN IF r.kind = "Panic" THEN [st |-> r.st, kind |-> "Panic", results |-> <<>>]
            ELSE fn_call_arms(r.st, ids, k + 1,
                              IF r.kind = "Ok" THEN Append(results, <<k, r>>) ELSE results)

OtherArms(ids, k) == KeepFrom(ids, 1, {k})

FnTyOfTerm(st, fn_ty_id, otherwise) ==
    IF st.term_store[fn_ty_id].tag = "FnTy"
    THEN ResTwo(st, "Ok", st.term_store[fn_ty_id].params, st.term_store[fn_ty_id].return_ty,
                NoError)
    ELSE otherwise

use_term_as_fn_call_subject(st, term_id) ==
    LET term == st.term_store[term_id]
    IN CASE term.tag = "Merge" ->
            LET arms == fn_call_arms(st, term.terms, 1, <<>>)
                single == arms.results[1]
                st1 == create_term(arms.st,
                                   [tag |-> "Merge",
                                    terms |-> <<single[2].snd>> \o OtherArms(term.terms, single[1])])
            IN IF arms.kind = "Panic" THEN PanicTwo(arms.st)
               ELSE IF Len(arms.results) = 0 THEN InvalidCallSubject(arms.st)
               ELSE IF Len(arms.results) = 1
               THEN ResTwo(st1, "Ok", single[2].fst, Len(st1.term_store), NoError)
               ELSE PanicTwo(arms.st)
         [] term.tag = "SetBound" ->
            LET r == Call("use_term_as_fn_call_subject", <<push_scope(st, term.scope), term.term>>)
                ps == Call("apply_set_bound_to_params_with_flag", <<[r.st EXCEPT !.scopes = st.scopes], term.scope, r.fst, {}>>)
                return_ty == Call("potentially_apply_set_bound_to_term", <<ps.st, term.scope, r.snd>>)
            IN IF r.kind # "Ok" THEN [r EXCEPT !.st.scopes = st.scopes]
               ELSE IF ps.kind # "Ok" THEN PanicTwo(ps.st)
               ELSE IF ~IsOk(return_ty) THEN PanicTwo(return_ty.st)
               ELSE ResTwo(return_ty.st, "Ok", ps.id, return_ty.val, NoError)
         [] term.tag = "Rt" -> FnTyOfTerm(st, term.ty, InvalidCallSubject(st))
         [] term.tag = "FnLit" -> FnTyOfTerm(st, term.fn_ty, PanicTwo(st))
         [] term.tag = "EnumVariant" ->
            LET def == st.nominal_def_store[term.enum_def_id]
                ks == VariantIndices(def, term.variant_name)
                st1 == create_term(st, [tag |-> "NominalDef", nominal_def_id |-> term.enum_def_id])
            IN IF def.kind # "Enum" \/ ks = {} THEN PanicTwo(st)
               ELSE ResTwo(st1, "Ok", def.variants[Min(ks)].fields, Len(st1.term_store), NoError)
         [] term.tag = "FnCall" -> PanicTwo(st)
         [] OTHER -> InvalidCallSubject(st)

simplify_fn_call(st, call, originating_term) ==
    LET s == Call("potentially_simplify_term", <<st, call.subject>>)
        c == Call("use_term_as_constructed_subject", <<s.st, s.val, call.args>>)
        f == Call("use_term_as_fn_call_subject", <<s.st, s.val>>)
        u == Call("unify_params_with_args", <<f.st, f.fst, call.args>>)
        subbed_return_value == Call("apply_sub_to_term", <<u.st, u.sub, f.snd>>)
    IN IF ~IsOk(s) THEN s
       ELSE IF Call("is_term_constructable", <<st, call.subject>>)
       THEN IF c.kind # "Ok" THEN Res(c.st, c.kind, None, c.err)
            ELSE Created(c.st, [tag |-> "Constructed", subject |-> c.fst, members |-> c.snd])
       ELSE IF f.kind # "Ok" THEN Res(f.st, f.kind, None, f.err)
       ELSE IF u.kind # "Ok" THEN Res(u.st, u.kind, None, u.err)
       ELSE Created(subbed_return_value.st, [tag |-> "Rt", ty |-> subbed_return_value.val])

(* ---- simplify_term (simplify.rs:953-1444) ---- *)

\* `r.map(|result| create_term(term))`
MapCreated(r, term) == IF ~IsOk(r) \/ r.val = None THEN r ELSE Created(r.st, term)

simplify_level0_term(st, term, originating_term) ==
    CASE term.tag = "Rt" ->
            LET r == Call("simplify_term", <<st, term.ty>>) IN MapCreated(r, [tag |-> "Rt", ty |-> r.val])
      [] term.tag = "FnLit" ->
            \* only the function type: the return value is left as it is
            LET r == Call("simplify_term", <<st, term.fn_ty>>)
            IN MapCreated(r, [tag |-> "FnLit", fn_ty |-> r.val, return_value |-> term.return_value])
      [] term.tag = "FnCall" -> simplify_fn_call(st, term, originating_term)
      [] term.tag = "TupleLit" ->
            LET r == Call("simplify_args", <<st, term.members>>) IN MapCreated(r, [tag |-> "TupleLit", members |-> r.val])
      [] term.tag = "Constructed" ->
            LET simplified_subject == Call("simplify_term", <<st, term.subject>>)
                simplified_members == Call("simplify_args", <<simplified_subject.st, term.members>>)
            IN IF ~IsOk(simplified_subject) THEN simplified_subject
               ELSE IF ~IsOk(simplified_members) THEN simplified_members
               ELSE IF simplified_subject.val # None \/ simplified_members.val # None
               THEN Created(simplified_members.st,
                            [tag |-> "Constructed",
                             subject |-> unwrap_or(simplified_subject, term.subject),
                             members |-> unwrap_or(simplified_members, term.members)])
               ELSE NoChange(simplified_members.st)
      [] OTHER -> NoChange(st)

simplify_level1_term(st, term) ==
    CASE term.tag = "TupleTy" ->
            LET r == Call("simplify_params", <<st, term.members>>) IN MapCreated(r, [tag |-> "TupleTy", members |-> r.val])
      [] term.tag = "FnTy" ->
            LET simplified_params == Call("simplify_params", <<st, term.params>>)
                simplified_return_ty == Call("simplify_term", <<simplified_params.st, term.return_ty>>)
            IN IF ~IsOk(simplified_params) THEN simplified_params
               ELSE IF ~IsOk(simplified_return_ty) THEN simplified_return_ty
               ELSE IF simplified_params.val = None /\ simplified_return_ty.val = None
               THEN NoChange(simplified_return_ty.st)
               ELSE Created(simplified_return_ty.st,
                            [tag |-> "FnTy", params |-> unwrap_or(simplified_params, term.params),
                             return_ty |-> unwrap_or(simplified_return_ty, term.return_ty)])
      [] OTHER -> NoChange(st)

\* The cases of a type function from case k on (simplify.rs:1347-1373).
RECURSIVE simplify_cases(_, _, _, _)
simplify_cases(st, cases, k, acc) ==
    IF k > Len(cases) THEN [acc EXCEPT !.st = st]
    ELSE LET case == cases[k]
             simplified_params == Call("simplify_params", <<st, case.params>>)
             st1 == make_bound_scope(simplified_params.st, case.params)
             inner == simplify_terms(push_scope(st1, Len(st1.scope_store)),
                                     <<case.return_ty, case.return_value>>)
             r == [inner EXCEPT !.st.scopes = st.scopes]
         IN IF ~IsOk(simplified_params)
            THEN ResList(simplified_params.st, simplified_params.kind, <<>>, None, FALSE,
                         simplified_params.err)
            ELSE IF r.kind # "Ok" THEN r
            ELSE simplify_cases(r.st, cases, k + 1,
                     [acc EXCEPT !.ids = Append(@, [params |-> unwrap_or(simplified_params, case.params),
                                                    return_ty |-> r.ids[1],
                                                    return_value |-> r.ids[2]]),
                                 !.changed = @ \/ simplified_params.val # None \/ r.changed])

\* The term is simplified in the scope and the scope is never left.
SimplifyAndStay(st, scope, term_id) == Call("simplify_term", <<push_scope(st, scope), term_id>>)

\* `enter_scope(scope, |this| this.simplifier().simplify_term(term))`
\* (simplify.rs:1273-1276, 1342-1345, 1405-1408)
simplify_in_scope(st, scope, term_id) ==
    leave_scope(Call("simplify_term", <<push_scope(st, scope), term_id>>), st)

simplify_ty_fn(st, ty_fn) ==
    LET simplified_general_params == Call("simplify_params", <<st, ty_fn.general_params>>)
        st1 == make_bound_scope(simplified_general_params.st, ty_fn.general_params)
        simplified_general_return_ty ==
            simplify_in_scope(st1, Len(st1.scope_store), ty_fn.general_return_ty)
        simplified_cases ==
            simplify_cases(simplified_general_return_ty.st, ty_fn.cases, 1,
                           ResList(st, "Ok", <<>>, None, FALSE, NoError))
    IN IF ~IsOk(simplified_general_params) THEN simplified_general_params
       ELSE IF ~IsOk(simplified_general_return_ty) THEN simplified_general_return_ty
       ELSE IF simplified_cases.kind # "Ok" THEN Propagate(simplified_cases)
       ELSE IF simplified_general_params.val = None
               /\ simplified_general_return_ty.val = None /\ ~simplified_cases.changed
       THEN NoChange(simplified_cases.st)
       ELSE Created(simplified_cases.st,
                    [tag |-> "TyFn", name |-> ty_fn.name,
                     general_params |-> unwrap_or(simplified_general_params, ty_fn.general_params),
                     general_return_ty |-> unwrap_or(simplified_general_return_ty, ty_fn.general_return_ty),
                     cases |-> simplified_cases.ids])

simplify_ty_fn_ty(st, ty_fn_ty) ==
    LET simplified_params == Call("simplify_params", <<st, ty_fn_ty.params>>)
        st1 == make_bound_scope(simplified_params.st, ty_fn_ty.params)
        simplified_return_ty ==
            simplify_in_scope(st1, Len(st1.scope_store), ty_fn_ty.return_ty)
    IN IF ~IsOk(simplified_params) THEN simplified_params
       ELSE IF ~IsOk(simplified_return_ty) THEN simplified_return_ty
       ELSE IF simplified_params.val = None /\ simplified_return_ty.val = None
       THEN NoChange(simplified_return_ty.st)
       ELSE Created(simplified_return_ty.st,
                    [tag |-> "TyFnTy", params |-> unwrap_or(simplified_params, ty_fn_ty.params),
                     return_ty |-> unwrap_or(simplified_return_ty, ty_fn_ty.return_ty)])

\* Cacher::has_been_simplified: the cached simplification of the term, if any.
has_been_simplified(cache, term_id) ==
    IF term_id \in DOMAIN cache THEN cache[term_id] ELSE None

\* Cacher::add_simplification_entry
add_simplification_entry(st, term_id, new_term) ==
    [st EXCEPT !.simplification_store = (term_id :> new_term) @@ @]

\* The match of simplify.rs:1259-1433.
simplify_term_uncached(st, term_id) ==
    LET value == st.term_store[term_id]
    IN CASE value.tag \in {"Merge", "Union"} ->
            LET r == simplify_algebraic_term_list(st, value.terms, value.tag)
            IN IF r.kind # "Ok" THEN Propagate(r)
               ELSE IF ~r.changed THEN NoChange(r.st)
               ELSE Created(r.st, [value EXCEPT !.terms = r.ids])
         [] value.tag = "SetBound" ->
            LET simplified_inner ==
                    simplify_in_scope(st, value.scope, value.term)
            IN IF ~IsOk(simplified_inner) THEN simplified_inner
               ELSE IF simplified_inner.val # None
               THEN Call("potentially_apply_set_bound_to_term", <<simplified_inner.st, value.scope, simplified_inner.val>>)
               ELSE apply_set_bound_to_term(simplified_inner.st, value.scope, value.term)
         [] value.tag = "TyFnCall" -> Call("apply_ty_fn", <<st, value>>)
         [] value.tag = "Access" -> Call("apply_access_term", <<st, value.subject, value.name, value.op>>)
         [] value.tag = "Var" ->
            LET scope_member == resolve_name_in_scopes(st, value.name)
                scope_kind == st.scope_store[scope_member.scope_id].kind
                st1 == create_term(st,
                          IF scope_kind = "Bound" THEN [tag |-> "BoundVar", name |-> value.name]
                          ELSE [tag |-> "ScopeVar", name |-> value.name,
                                scope |-> scope_member.scope_id, index |-> scope_member.index])
            IN IF ~scope_member.found THEN Fail(st, "UnresolvedVariable", value.name)
               ELSE Call("potentially_simplify_term", <<st1, Len(st1.term_store)>>)
         [] value.tag = "ScopeVar" ->
            LET member == get_scope_var_member(st, value)
            IN IF is_closed_and_non_bound(member) /\ member.value # None
               THEN Call("potentially_simplify_term", <<st, member.value>>)
               ELSE NoChange(st)
         [] value.tag = "TyFn" -> simplify_ty_fn(st, value)
         [] value.tag = "TyFnTy" -> simplify_ty_fn_ty(st, value)
         [] value.tag = "TyOf" -> Call("infer_ty_of_term", <<st, value.term>>)
         [] value.tag \in Level1Tags -> simplify_level1_term(st, value)
         [] value.tag \in Level0Tags -> simplify_level0_term(st, value, term_id)
         [] OTHER -> NoChange(st)

\* A simplifier that never finds a term in the cache.
NeverSimplified(st, term_id) == None

\* The check of simplify.rs:1254: the term the cache holds for term_id, if any.
simplified_before(st, term_id) == has_been_simplified(st.simplification_store, term_id)

\* Simplifier::simplify_term: the cached result if there is one, otherwise the
\* match on the term, whose new term (if any) enters the cache.
simplify_term(st, term_id) ==
    IF simplified_before(st, term_id) # None
    THEN Some(st, simplified_before(st, term_id))
    ELSE LET new_term == Call("simplify_term_uncached", <<st, term_id>>)
         IN IF IsOk(new_term) /\ new_term.val # None
            THEN [new_term EXCEPT !.st = add_simplification_entry(@, term_id, new_term.val)]
            ELSE new_term

-----------------------------------------------------------------------------
(* The operations of the type checker call each other through Call, which
   dispatches on the name of the operation; `a` holds the arguments. *)

Call(op, a) ==
    CASE op = "simplify_term" -> simplify_term(a[1], a[2])
      [] op = "potentially_simplify_term" -> potentially_simplify_term(a[1], a[2])
      [] op = "apply_access_term" -> apply_access_term(a[1], a[2], a[3], a[4])
      [] op = "infer_ty_of_term" -> infer_ty_of_term(a[1], a[2])
      [] op = "unify_terms" -> unify_terms(a[1], a[2], a[3])
      [] op = "term_is_fn_ty" -> term_is_fn_ty(a[1], a[2])
      [] op = "apply_set_bound_to_term_rec" -> apply_set_bound_to_term_rec(a[1], a[2], a[3], a[4])
      [] op = "apply_sub_to_term" -> apply_sub_to_term(a[1], a[2], a[3])
      [] op = "add_free_bound_vars_in_term_to_set" -> add_free_bound_vars_in_term_to_set(a[1], a[2])
      [] op = "add_free_sub_vars_in_term_to_set" -> add_free_sub_vars_in_term_to_set(a[1], a[2])
      [] op = "TermTree" -> TermTree(a[1], a[2])
      [] op = "use_term_as_fn_call_subject" -> use_term_as_fn_call_subject(a[1], a[2])
      [] op = "use_term_as_constructed_subject" -> use_term_as_constructed_subject(a[1], a[2], a[3])
      [] op = "access_struct_or_tuple_field" -> access_struct_or_tuple_field(a[1], a[2], a[3])
      [] op = "is_term_constructable" -> is_term_constructable(a[1], a[2])
      [] op = "unify_params_with_args" -> unify_params_with_args(a[1], a[2], a[3])
      [] op = "simplify_params" -> simplify_params(a[1], a[2])
      [] op = "simplify_args" -> simplify_args(a[1], a[2])
      [] op = "apply_set_bound_to_params_with_flag" -> apply_set_bound_to_params_with_flag(a[1], a[2], a[3], a[4])
      [] op = "apply_set_bound_to_args_with_flag" -> apply_set_bound_to_args_with_flag(a[1], a[2], a[3], a[4])
      [] op = "potentially_apply_set_bound_to_term" -> potentially_apply_set_bound_to_term(a[1], a[2], a[3])
      [] op = "apply_sub_to_params" -> apply_sub_to_params(a[1], a[2], a[3])
      [] op = "simplify_term_uncached" -> simplify_term_uncached(a[1], a[2])
      [] op = "apply_ty_fn" -> apply_ty_fn(a[1], a[2])

-----------------------------------------------------------------------------
(* The storage the simplifier runs on: a small program built with the
   builder, as the test of simplify.rs:1471-1561 builds one. *)

MaxCalls == 3
MaxScopeDepth == 2


ConstantMember(name, ty, value) ==
    [name |-> name, ty |-> ty, value |-> value, kind |-> "Constant",
     visibility |-> "Public", mutability |-> "Immutable", data |-> "InitialisedWithTy"]

\* The definitions the inputs are built over, with the ids the stores give them:
\*   terms    1 i32, 2 str, 3 Dog := struct(x: i32), 4 Cat := struct(x: str),
\*            5 (x: str, y: i32), 6 ?1, 7 (self: ?1, other: ?1) -> ?1, 8 Rt(?1),
\*            9 the function hash, 10 () -> i32, 11 Rt(i32), 12 the function n,
\*            13 M := mod { hash, n }, 14 AnyTy, 15 T, 16 id := <T: AnyTy> => T, 17 a,
\*            18 only := <T: AnyTy> => { <T: i32> => T, <U: AnyTy> => T }, 19 Dog (the name),
\*            20 M2 := mod { n }
\*   args     1 (a), 2 (T = a), 3 (x = Rt(i32)), 4 ()
\*   scopes   1 the members of M, 2 the root scope, 3 an inner scope that shadows a,
\*            4 the members of M2
Prelude ==
    [i32_ty |-> 1, str_ty |-> 2, dog_ty |-> 3, cat_ty |-> 4, pair_ty |-> 5, hole |-> 6,
     hash_ty |-> 7, mod_ty |-> 13, id_fn |-> 16, var_a |-> 17, only_fn |-> 18,
     var_dog |-> 19, hash_fn |-> 9, n_fn |-> 12, mod2_ty |-> 20,
     id_args |-> 1, named_args |-> 2, field_args |-> 3, no_args |-> 4,
     mod_scope |-> 1, root_scope |-> 2, inner_scope |-> 3,
     st |->
       [term_store |->
          <<[tag |-> "NominalDef", nominal_def_id |-> 1],
            [tag |-> "NominalDef", nominal_def_id |-> 2],
            [tag |-> "NominalDef", nominal_def_id |-> 3],
            [tag |-> "NominalDef", nominal_def_id |-> 4],
            [tag |-> "TupleTy", members |-> 3],
            [tag |-> "Unresolved", resolution_id |-> 1],
            [tag |-> "FnTy", params |-> 4, return_ty |-> 6],
            [tag |-> "Rt", ty |-> 6],
            [tag |-> "FnLit", fn_ty |-> 7, return_value |-> 8],
            [tag |-> "FnTy", params |-> 5, return_ty |-> 1],
            [tag |-> "Rt", ty |-> 1],
            [tag |-> "FnLit", fn_ty |-> 10, return_value |-> 11],
            [tag |-> "ModDef", mod_def_id |-> 1],
            [tag |-> "AnyTy"],
            [tag |-> "Var", name |-> "T"],
            [tag |-> "TyFn", name |-> "id", general_params |-> 6, general_return_ty |-> 14,
             cases |-> <<[params |-> 6, return_ty |-> 14, return_value |-> 15]>>],
            [tag |-> "Var", name |-> "a"],
            [tag |-> "TyFn", name |-> "only", general_params |-> 6, general_return_ty |-> 14,
             cases |-> <<[params |-> 7, return_ty |-> 14, return_value |-> 15],
                         [params |-> 8, return_ty |-> 14, return_value |-> 15]>>],
            [tag |-> "Var", name |-> "Dog"],
            [tag |-> "ModDef", mod_def_id |-> 2]>>,
        params_store |->
          <<<<Param("x", 1, None)>>,
            <<Param("x", 2, None)>>,
            <<Param("x", 2, None), Param("y", 1, None)>>,
            <<Param("self", 6, None), Param("other", 6, None)>>,
            <<>>,
            <<Param("T", 14, None)>>,
            <<Param("T", 1, None)>>,
            <<Param("U", 14, None)>>>>,
        args_store |-> <<<<[name |-> NoName, value |-> 17]>>, <<[name |-> "T", value |-> 17]>>,
                        <<[name |-> "x", value |-> 11]>>, <<>>>>,
        scope_store |->
          <<[kind |-> "Constant",
             members |-> <<ConstantMember("hash", 7, 9), ConstantMember("n", 10, 12)>>],
            [kind |-> "Constant",
             members |-> <<ConstantMember("i32", 14, 1), ConstantMember("str", 14, 2),
                           ConstantMember("Dog", 14, 3), ConstantMember("Cat", 14, 4),
                           ConstantMember("M", 14, 13), ConstantMember("id", None, 16),
                           ConstantMember("a", 14, 1)>>],
            [kind |-> "Constant", members |-> <<ConstantMember("a", 14, 2)>>],
            [kind |-> "Constant", members |-> <<ConstantMember("n", 1, 11)>>]>>,
        nominal_def_store |->
          <<[kind |-> "Struct", name |-> "i32", fields |-> None],
            [kind |-> "Struct", name |-> "str", fields |-> None],
            [kind |-> "Struct", name |-> "Dog", fields |-> 1],
            [kind |-> "Struct", name |-> "Cat", fields |-> 2]>>,
        mod_def_store |->
          <<[name |-> "M", members |-> 1, origin |-> [kind |-> "Source", trt |-> None]],
            [name |-> "M2", members |-> 4, origin |-> [kind |-> "Source", trt |-> None]]>>,
        trt_def_store |-> <<>>,
        pat_store |-> <<>>,
        scopes |-> <<2>>,
        simplification_store |-> <<>>]]

\* The types an input is made of.
TypeRoots ==
    {Prelude.dog_ty, Prelude.cat_ty, Prelude.pair_ty, Prelude.mod_ty, Prelude.i32_ty,
     Prelude.mod2_ty}

\* A type expression: a root, the merge or the union of two roots, the union
\* of the bound variable T and the module M, a merge or union with a nested one
\* and repeated elements, the variable `a`, or the application of a type
\* function to `a`.
TyExprs ==
    [k : {"Root"}, a : TypeRoots, b : {None}]
    \cup {e \in [k : {"Merge", "Union"}, a : TypeRoots, b : TypeRoots] : e.a # e.b}
    \cup [k : {"BoundVarOr", "OrBoundVar"}, a : {Prelude.mod_ty}, b : {None}]
    \cup [k : {"Var"}, a : {Prelude.var_a}, b : {None}]
    \cup [k : {"TyFnCall"}, a : {Prelude.id_fn, Prelude.only_fn},
           b : {Prelude.id_args, Prelude.named_args}]
    \cup [k : {"PickCall"}, a : {Prelude.var_a}, b : {NoName, "T", "U"}]
    \cup [k : {"MergeNest", "UnionNest"}, a : {Prelude.i32_ty, Prelude.dog_ty},
           b : {Prelude.cat_ty}]

\* What a call is made on: a type, a function, the merge of two of them, or a
\* name of a type.
CallRoots ==
    {Prelude.dog_ty, Prelude.cat_ty, Prelude.i32_ty, Prelude.pair_ty, Prelude.hash_fn,
     Prelude.n_fn}

CallSubjects ==
    [k : {"Root"}, a : CallRoots, b : {None}]
    \cup {e \in [k : {"Merge"}, a : CallRoots, b : CallRoots] : e.a # e.b}
    \cup [k : {"Var"}, a : {Prelude.var_a, Prelude.var_dog}, b : {None}]

\* An input: a type expression, possibly a runtime value of it, possibly an
\* access of a name on that; or a call of a subject with arguments.
Inputs ==
    [ty : TyExprs, rt : BOOLEAN, access : BOOLEAN, name : {"x", "hash", "n"},
     op : {"Property", "Namespace"}, call : {None}]
    \cup [ty : CallSubjects, rt : {FALSE}, access : {FALSE}, name : {"x"}, op : {"Property"},
           call : {Prelude.field_args, Prelude.no_args}]

BuildTyExpr(p, e) ==
    CASE e.k = "Root" -> [st |-> p.st, id |-> e.a]
      [] e.k \in {"Merge", "Union"} ->
            [st |-> create_term(p.st, [tag |-> e.k, terms |-> <<e.a, e.b>>]),
             id |-> Len(p.st.term_store) + 1]
      [] e.k \in {"BoundVarOr", "OrBoundVar"} ->
            [st |-> [p.st EXCEPT !.term_store = @ \o
                        <<[tag |-> "BoundVar", name |-> "T"],
                          [tag |-> "Union",
                           terms |-> IF e.k = "BoundVarOr" THEN <<Len(p.st.term_store) + 1, e.a>>
                                     ELSE <<e.a, Len(p.st.term_store) + 1>>]>>],
             id |-> Len(p.st.term_store) + 2]
      [] e.k = "Var" -> [st |-> p.st, id |-> e.a]
      [] e.k = "TyFnCall" ->
            [st |-> create_term(p.st, [tag |-> "TyFnCall", subject |-> e.a, args |-> e.b]),
             id |-> Len(p.st.term_store) + 1]
      [] e.k \in {"MergeNest", "UnionNest"} ->
            \* a ^ (b ^ a) ^ `a` ^ b, with ^ the separator of the kind
            [st |-> [p.st EXCEPT !.term_store = @ \o
                       <<[tag |-> IF e.k = "MergeNest" THEN "Merge" ELSE "Union",
                          terms |-> <<e.b, e.a>>],
                         [tag |-> IF e.k = "MergeNest" THEN "Merge" ELSE "Union",
                          terms |-> <<e.a, Len(p.st.term_store) + 1, Prelude.var_a, e.b>>]>>],
             id |-> Len(p.st.term_store) + 2]
      [] e.k = "PickCall" ->
            \* pick := <T: AnyTy> => { <T: i32> => T, <T: AnyTy> => T, <U: AnyTy> => T },
            \* with T the bound variable, called with (a), (T = a) or (U = a)
            [st |-> [p.st EXCEPT
                       !.args_store = Append(@, <<[name |-> e.b, value |-> e.a]>>),
                       !.term_store = @ \o
                         <<[tag |-> "BoundVar", name |-> "T"],
                           [tag |-> "TyFn", name |-> "pick", general_params |-> 6,
                            general_return_ty |-> 14,
                            cases |-> <<[params |-> 7, return_ty |-> 14,
                                         return_value |-> Len(p.st.term_store) + 1],
                                        [params |-> 6, return_ty |-> 14,
                                         return_value |-> Len(p.st.term_store) + 1],
                                        [params |-> 8, return_ty |-> 14,
                                         return_value |-> Len(p.st.term_store) + 1]>>],
                           [tag |-> "TyFnCall", subject |-> Len(p.st.term_store) + 2,
                            args |-> Len(p.st.args_store) + 1]>>],
             id |-> Len(p.st.term_store) + 3]

\* The input on top of its type expression t: Rt(t) if it is a runtime value,
\* the access of the name on that if it is an access, the call of it if it is
\* a call.
BuildInput(t, inp) ==
    LET subject == IF inp.rt THEN Len(t.st.term_store) + 1 ELSE t.id
        access == [tag |-> "Access", subject |-> subject, name |-> inp.name, op |-> inp.op]
        call == [tag |-> "FnCall", subject |-> subject, args |-> inp.call]
        terms == (IF inp.rt THEN <<[tag |-> "Rt", ty |-> t.id]>> ELSE <<>>)
                 \o (IF inp.access THEN <<access>> ELSE <<>>)
                 \o (IF inp.call # None THEN <<call>> ELSE <<>>)
    IN [st |-> [t.st EXCEPT !.term_store = @ \o terms],
        id |-> IF inp.access \/ inp.call # None THEN Len(t.st.term_store) + Len(terms)
               ELSE subject]

\* An input without access carries the default name and operator.
WellFormedInput(inp) == inp.access \/ (inp.name = "x" /\ inp.op = "Property")

storage ==
    Storage(term_store, params_store, args_store, scope_store, nominal_def_store,
            mod_def_store, trt_def_store, pat_store, scopes, simplification_store)

\* The stores, the scope stack and the cache are those of st.
StorageIs(st) ==
    /\ term_store = st.term_store
    /\ params_store = st.params_store
    /\ args_store = st.args_store
    /\ scope_store = st.scope_store
    /\ nominal_def_store = st.nominal_def_store
    /\ mod_def_store = st.mod_def_store
    /\ trt_def_store = st.trt_def_store
    /\ pat_store = st.pat_store
    /\ scopes = st.scopes
    /\ simplification_store = st.simplification_store

InitSimplify ==
    /\ fn = "simplify_term" /\ params = <<>> /\ args = <<>> /\ name_map = "first"
    /\ pc = "done" /\ i = 0 /\ used_params = {} /\ default_params = {}
    /\ done_positional = FALSE /\ result = <<>> /\ params_used = {} /\ outcome = Running
    /\ NoCounterCalls
    /\ \E inp \in {x \in Inputs : WellFormedInput(x)} :
          /\ StorageIs(BuildInput(BuildTyExpr(Prelude, inp.ty), inp).st)
          /\ input = BuildInput(BuildTyExpr(Prelude, inp.ty), inp).id
    /\ call_log = <<>>

\* What a call left behind: the term, the scope stack when the call was
\* entered and when it returned, and the TcResult<Option<TermId>> it returned.
CallRecord(term_id, r) ==
    [op |-> "simplify_term", term |-> term_id, scopes |-> scopes, left |-> r.st.scopes,
     kind |-> r.kind,
     val |-> r.val, err |-> r.err,
     cached |-> has_been_simplified(simplification_store, term_id)]

SetStorage(st) ==
    /\ term_store' = st.term_store
    /\ params_store' = st.params_store
    /\ args_store' = st.args_store
    /\ scope_store' = st.scope_store
    /\ nominal_def_store' = st.nominal_def_store
    /\ mod_def_store' = st.mod_def_store
    /\ trt_def_store' = st.trt_def_store
    /\ pat_store' = st.pat_store
    /\ scopes' = st.scopes
    /\ simplification_store' = st.simplification_store

\* The terms the driver simplifies: the input and what earlier calls returned.
CallTargets == ({input} \cup {call_log[k].val : k \in 1..Len(call_log)}) \ {None}

\* A call of Simplifier::simplify_term from outside.  A panic ends the run.
SimplifyTerm(term_id) ==
    /\ fn \in {"simplify_term", "build"}
    /\ Len(call_log) < MaxCalls
    /\ \A k \in 1..Len(call_log) : call_log[k].kind # "Panic"
    /\ LET r == Call("simplify_term", <<storage, term_id>>)
       IN /\ SetStorage(r.st)
          /\ call_log' = Append(call_log, CallRecord(term_id, r))
    /\ UNCHANGED <<pvars, cvars, input>>

\* ScopeManager::enter_scope as seen from outside: the push ...
EnterScope(scope_id) ==
    /\ fn = "simplify_term"
    /\ Len(scopes) < MaxScopeDepth
    /\ scopes' = Append(scopes, scope_id)
    /\ UNCHANGED <<pvars, cvars, input, call_log, term_store, params_store, args_store, scope_store,
                   nominal_def_store, mod_def_store, trt_def_store, pat_store,
                   simplification_store>>

\* ... and the pop.
ExitScope ==
    /\ fn = "simplify_term"
    /\ Len(scopes) > 1
    /\ scopes' = SubSeq(scopes, 1, Len(scopes) - 1)
    /\ UNCHANGED <<pvars, cvars, input, call_log, term_store, params_store, args_store, scope_store,
                   nominal_def_store, mod_def_store, trt_def_store, pat_store,
                   simplification_store>>

NextSimplify ==
    \/ \E t \in CallTargets : SimplifyTerm(t)
    \/ \E s \in {Prelude.inner_scope, Prelude.mod_scope} : EnterScope(s)
    \/ ExitScope

SpecSimplify == InitSimplify /\ [][NextSimplify]_vars

-----------------------------------------------------------------------------
(* Claims about the simplifier *)

\* The terms a term refers to directly.
RECURSIVE CaseTerms(_, _)
CaseTerms(st, cases) ==
    IF cases = <<>> THEN <<>>
    ELSE ParamTerms(st.params_store[Head(cases).params])
         \o <<Head(cases).return_ty, Head(cases).return_value>> \o CaseTerms(st, Tail(cases))

ChildTerms(st, term) ==
    CASE term.tag \in {"Merge", "Union"} -> term.terms
      [] term.tag = "Access" -> <<term.subject>>
      [] term.tag = "TyFn" ->
            ParamTerms(st.params_store[term.general_params]) \o <<term.general_return_ty>>
            \o CaseTerms(st, term.cases)
      [] term.tag \in {"TyFnTy", "FnTy"} ->
            ParamTerms(st.params_store[term.params]) \o <<term.return_ty>>
      [] term.tag \in {"TyFnCall", "FnCall"} ->
            <<term.subject>> \o ArgTerms(st.args_store[term.args])
      [] term.tag = "SetBound" ->
            <<term.term>> \o MemberTerms(st.scope_store[term.scope].members)
      [] term.tag = "TyOf" -> <<term.term>>
      [] term.tag = "TupleTy" -> ParamTerms(st.params_store[term.members])
      [] term.tag = "Rt" -> <<term.ty>>
      [] term.tag = "FnLit" -> <<term.fn_ty, term.return_value>>
      [] term.tag = "TupleLit" -> ArgTerms(st.args_store[term.members])
      [] term.tag = "Constructed" -> <<term.subject>> \o ArgTerms(st.args_store[term.members])
      [] OTHER -> <<>>

\* The names of the Var terms reachable in a term.
RECURSIVE VarsIn(_, _)
VarsIn(st, term_id) ==
    LET term == st.term_store[term_id]
    IN IF term.tag = "Var" THEN {term.name}
       ELSE UNION {VarsIn(st, x) : x \in Range(ChildTerms(st, term)) \ {None}}

\* The storage as it is now, under the scope stack of a call.
StorageUnder(stack) == [storage EXCEPT !.scopes = stack]

\* What potentially_simplify_term returned in a call that succeeded.
ResultOf(c) == IF c.val = None THEN c.term ELSE c.val

\* C6: simplification is idempotent: simplifying the result of a successful
\* potentially_simplify_term(t) again, under the same scope stack, reports no
\* change, or a term of the same structure as the result.
C6_SimplificationIsIdempotent ==
    \A k \in 1..Len(call_log) :
        LET c == call_log[k]
            again == Call("simplify_term", <<StorageUnder(c.scopes), ResultOf(c)>>)
        IN c.kind = "Ok" =>
              /\ again.kind = "Ok"
              /\ \/ again.val = None
                 \/ Call("TermTree", <<again.st, again.val>>) = Call("TermTree", <<storage, ResultOf(c)>>)

\* C8: the term a successful simplification returns holds no Var that resolves
\* in the scope stack of the call.
C8_NoResolvableVarInResult ==
    \A k \in 1..Len(call_log) :
        LET c == call_log[k]
        IN (c.kind = "Ok" /\ c.val # None) =>
              \A name \in VarsIn(storage, ResultOf(c)) :
                  ~resolve_name_in_scopes(StorageUnder(c.scopes), name).found

\* The type `ty` is a struct or a tuple type that defines the field `name`.
DefinesField(st, ty, name) ==
    LET term == st.term_store[ty]
    IN \/ /\ term.tag = "NominalDef"
          /\ st.nominal_def_store[term.nominal_def_id].kind = "Struct"
          /\ st.nominal_def_store[term.nominal_def_id].fields # None
          /\ get_by_name(st.params_store[st.nominal_def_store[term.nominal_def_id].fields],
                         name, "first") # -1
       \/ /\ term.tag = "TupleTy"
          /\ get_by_name(st.params_store[term.members], name, "first") # -1

\* The call is a property access of a field that both arms of the merge type
\* of the runtime subject define.
AccessOfFieldOfBothArms(c) ==
    LET t == storage.term_store[c.term]
    IN /\ t.tag = "Access" /\ t.op = "Property"
       /\ storage.term_store[t.subject].tag = "Rt"
       /\ LET ty == storage.term_store[storage.term_store[t.subject].ty]
          IN /\ ty.tag = "Merge" /\ Len(ty.terms) = 2
             /\ DefinesField(storage, ty.terms[1], t.name)
             /\ DefinesField(storage, ty.terms[2], t.name)

\* C9: a property access of x on a runtime value of type Merge(A, B), where
\* both A and B are struct or tuple types with a field x, fails with
\* AmbiguousAccess.
C9_FieldOfBothArmsIsAmbiguous ==
    \A k \in 1..Len(call_log) :
        AccessOfFieldOfBothArms(call_log[k]) =>
            /\ call_log[k].kind = "Err"
            /\ call_log[k].err.kind = "AmbiguousAccess"


\* The function type that the access of `name` on a runtime value of type
\* `ty` resolves to (None if it is a field, or resolves to no function type).
MethodFnTy(st, ty, name) ==
    LET field == Call("access_struct_or_tuple_field", <<st, ty, name>>)
        acc == Call("apply_access_term", <<field.st, ty, name, "Namespace">>)
        ty_of_acc == Call("infer_ty_of_term", <<acc.st, acc.val>>)
        f == Call("term_is_fn_ty", <<ty_of_acc.st, ty_of_acc.val>>)
    IN IF ~IsOk(field) \/ field.val # None THEN NoChange(st)
       ELSE IF ~IsOk(acc) \/ acc.val = None THEN NoChange(st)
       ELSE IF ~IsOk(ty_of_acc) THEN NoChange(st)
       ELSE IF ~IsOk(f) THEN NoChange(st)
       ELSE f

\* The structure of Rt(Fn{params, return_ty}).
MethodTree(params_tree, return_ty_tree) ==
    [tag |-> "Rt", ty |-> [tag |-> "FnTy", params |-> params_tree, return_ty |-> return_ty_tree]]

\* The call is a property access on a runtime value.
PropertyAccessOnRt(c) ==
    /\ storage.term_store[c.term].tag = "Access"
    /\ storage.term_store[c.term].op = "Property"
    /\ storage.term_store[storage.term_store[c.term].subject].tag = "Rt"

\* C10: when a property access on Rt(ty) resolves to a function type whose
\* first parameter unifies with ty under a substitution, the result is
\* Rt(Fn{params, return_ty}) with the parameters after the first and the return
\* type, both under the substitution; a function type without parameters gives
\* InvalidPropertyAccessOfNonMethod.
C10_MethodIsSubstitutedFnTy ==
    \A k \in 1..Len(call_log) :
        LET c == call_log[k]
            t == storage.term_store[c.term]
            s == Call("potentially_simplify_term", <<StorageUnder(c.scopes), t.subject>>)
            ty == s.st.term_store[s.val].ty
            m == MethodFnTy(s.st, ty, t.name)
            fn_ty == m.st.term_store[m.val]
            ps == m.st.params_store[fn_ty.params]
            u == Call("unify_terms", <<m.st, ty, positional(ps, 0).ty>>)
            subbed_params == Call("apply_sub_to_params", <<u.st, u.sub, fn_ty.params>>)
            subbed_return_ty == Call("apply_sub_to_term", <<subbed_params.st, u.sub, fn_ty.return_ty>>)
        IN (PropertyAccessOnRt(c) /\ IsOk(s) /\ m.val # None) =>
              IF len(ps) = 0
              THEN c.kind = "Err" /\ c.err.kind = "InvalidPropertyAccessOfNonMethod"
              ELSE u.kind = "Ok" =>
                      /\ c.kind = "Ok" /\ c.val # None
                      /\ Call("TermTree", <<storage, c.val>>) =
                            MethodTree(Skip1(ParamsTree(subbed_params.st, subbed_params.id)),
                                       Call("TermTree", <<subbed_return_ty.st, subbed_return_ty.val>>))


\* A later call on a term an earlier call simplified returns the same term.
LaterCallsReturnTheSame ==
    \A j \in 1..Len(call_log) : \A k \in 1..(j - 1) :
        (/\ call_log[k].term = call_log[j].term
         /\ call_log[k].kind = "Ok"
         /\ call_log[k].val # None)
            => /\ call_log[j].kind = "Ok"
               /\ call_log[j].val = call_log[k].val

\* No step overwrites or removes an entry of the simplification cache.
CacheEntriesKept ==
    \A t \in DOMAIN simplification_store :
        /\ t \in DOMAIN simplification_store'
        /\ simplification_store'[t] = simplification_store[t]

\* C7: once simplify_term(t) has returned Some(t'), every later call on t
\* returns Some(t') whatever happened in between, and an entry of the cache is
\* never overwritten or removed.
C7_SimplificationIsMemoized == []LaterCallsReturnTheSame /\ [][CacheEntriesKept]_vars

\* A term simplified to Some(t') is simplified again under another scope stack
\* and the call answers from the cache.
C7_Witness ==
    \E j \in 1..Len(call_log) : \E k \in 1..(j - 1) :
        /\ call_log[k].term = call_log[j].term
        /\ call_log[k].kind = "Ok"
        /\ call_log[k].val # None
        /\ call_log[k].scopes # call_log[j].scopes
        /\ call_log[j].cached = call_log[k].val
        /\ call_log[j].val = call_log[k].val

-----------------------------------------------------------------------------
(* Claims about type-function application and call subjects *)

\* What the cases of the type function say about the arguments of the call, in
\* the storage as the call left it and under the scope stack of the call.
CaseUnifications(c, ty_fn) ==
    [k \in 1..Len(ty_fn.cases) |->
        Call("unify_params_with_args",
             <<StorageUnder(c.scopes), ty_fn.cases[k].params, storage.term_store[c.term].args>>)]

\* The call c is of a TyFnCall whose subject simplifies to a TyFn, whose
\* general parameters unify with the arguments and none of whose cases does.
NoCaseApplies(c) ==
    /\ storage.term_store[c.term].tag = "TyFnCall"
    /\ LET apply == storage.term_store[c.term]
           s == Call("simplify_term", <<StorageUnder(c.scopes), apply.subject>>)
           ty_fn == s.st.term_store[unwrap_or(s, apply.subject)]
       IN /\ IsOk(s)
          /\ ty_fn.tag = "TyFn"
          /\ Call("unify_params_with_args",
                  <<StorageUnder(c.scopes), ty_fn.general_params, apply.args>>).kind = "Ok"
          /\ \A k \in 1..Len(ty_fn.cases) : CaseUnifications(c, ty_fn)[k].kind = "Err"

\* The errors of the cases of the simplified subject of the call c, in order.
CaseErrors(c) ==
    LET apply == storage.term_store[c.term]
        s == Call("simplify_term", <<StorageUnder(c.scopes), apply.subject>>)
        ty_fn == s.st.term_store[unwrap_or(s, apply.subject)]
    IN [k \in 1..Len(ty_fn.cases) |-> CaseUnifications(c, ty_fn)[k].err]

\* C11: a type-function call whose arguments unify with the general parameters
\* and with the parameters of no case fails with InvalidTyFnApplication, whose
\* unification_errors are the errors of the n cases, one per case and in the
\* order of the cases.
C11_AllCaseErrorsAreReported ==
    \A j \in 1..Len(call_log) :
        NoCaseApplies(call_log[j])
        => /\ call_log[j].kind = "Err"
           /\ call_log[j].err.kind = "InvalidTyFnApplication"
           /\ call_log[j].err.unification_errors = CaseErrors(call_log[j])

\* A call of a type function of two cases that fail for different reasons.
C11_Witness ==
    \E j \in 1..Len(call_log) :
        /\ NoCaseApplies(call_log[j])
        /\ call_log[j].err.kind = "InvalidTyFnApplication"
        /\ Len(call_log[j].err.unification_errors) = 2
        /\ call_log[j].err.unification_errors[1] # call_log[j].err.unification_errors[2]

\* The term is a struct with explicit fields that the arguments pair with.
IsStructFor(st, term_id, args_id) ==
    /\ st.term_store[term_id].tag = "NominalDef"
    /\ LET def == st.nominal_def_store[st.term_store[term_id].nominal_def_id]
       IN /\ def.kind = "Struct"
          /\ def.fields # None
          /\ pair_args_with_params(st.params_store[def.fields], st.args_store[args_id]).outcome = Ok

\* The structs the subject of a call reduces to: the simplified subject
\* itself, or the arms of the merge it is.
StructsOfSubject(st, call) ==
    LET s == Call("potentially_simplify_term", <<st, call.subject>>)
        subject == s.st.term_store[s.val]
    IN IF ~IsOk(s) THEN {}
       ELSE IF subject.tag = "Merge"
       THEN {x \in Range(subject.terms) : IsStructFor(s.st, x, call.args)}
       ELSE {x \in {s.val} : IsStructFor(s.st, x, call.args)}

\* C12: a call whose subject reduces to a struct with explicit fields, or to a
\* merge with one such arm, simplifies to a Constructed term.
C12_CallOfStructIsConstructed ==
    \A j \in 1..Len(call_log) :
        LET c == call_log[j]
        IN (/\ storage.term_store[c.term].tag = "FnCall"
            /\ Cardinality(StructsOfSubject(StorageUnder(c.scopes), storage.term_store[c.term])) = 1)
           => /\ c.kind = "Ok"
              /\ c.val # None
              /\ storage.term_store[c.val].tag = "Constructed"

\* The arms of a merge that can be called / that the arguments construct.
FnArms(st, ids) ==
    {k \in 1..Len(ids) : Call("use_term_as_fn_call_subject", <<st, ids[k]>>).kind = "Ok"}
ConstructedArms(st, ids, args_id) ==
    {k \in 1..Len(ids) :
        Call("use_term_as_constructed_subject", <<st, ids[k], args_id>>).kind = "Ok"}

\* What using a merge as a subject has to return: a value if exactly one arm
\* is usable, an error otherwise.
MergeSubjectKind(arms) == IF Cardinality(arms) = 1 THEN "Ok" ELSE "Err"

\* C16: a Merge used as the subject of a function call or of a constructor
\* returns a value when exactly one arm is usable and a TcError when none or
\* several are; it never aborts.
C16_MergeSubjectReturnsResult ==
    \A j \in 1..Len(call_log) :
        LET c == call_log[j]
            call == storage.term_store[c.term]
        IN call.tag = "FnCall"
           => LET s == Call("potentially_simplify_term", <<StorageUnder(c.scopes), call.subject>>)
              IN (IsOk(s) /\ s.st.term_store[s.val].tag = "Merge")
                 => LET ids == s.st.term_store[s.val].terms
                    IN /\ Call("use_term_as_fn_call_subject", <<s.st, s.val>>).kind
                            = MergeSubjectKind(FnArms(s.st, ids))
                       /\ Call("use_term_as_constructed_subject", <<s.st, s.val, call.args>>).kind
                            = MergeSubjectKind(ConstructedArms(s.st, ids, call.args))

-----------------------------------------------------------------------------
(* Claims about scopes and the cache *)

\* C17: whatever a call of simplify_term returns - Some, None or an error
\* raised inside nested scopes - the scope stack when it returns is the scope
\* stack when it was entered.
C17_ScopeStackIsRestored ==
    \A j \in 1..Len(call_log) : call_log[j].left = call_log[j].scopes

\* A call under a stack of two scopes fails with an error raised inside the
\* scope of a module.
C17_Witness ==
    \E j \in 1..Len(call_log) :
        /\ call_log[j].kind = "Err"
        /\ Len(call_log[j].scopes) = 2
        /\ storage.term_store[call_log[j].term].tag = "Access"
        /\ storage.term_store[call_log[j].term].op = "Namespace"
        /\ storage.term_store[storage.term_store[call_log[j].term].subject].tag = "ModDef"
        /\ call_log[j].left = call_log[j].scopes

\* What the name of the Var of the call c resolves to in the scope stack of
\* the call: the innermost member of that name.
MemberOfCall(c) ==
    resolve_name_in_scopes(StorageUnder(c.scopes), storage.term_store[c.term].name)

\* The term the Var of the call c stands for under the scope stack of the
\* call: the simplified value of the member (the members of the scopes that
\* are entered from outside are constants with a value).
ResolvedVar(c) ==
    LET st == StorageUnder(c.scopes)
        value == get_scope_var_member(st, [scope |-> MemberOfCall(c).scope_id,
                                           index |-> MemberOfCall(c).index]).value
        s == Call("potentially_simplify_term", <<st, value>>)
    IN Call("TermTree", <<s.st, s.val>>)

\* C19: simplify_term on a Var returns the term of the innermost member of
\* that name in the scope stack of the call, also when the same Var was
\* simplified before under another scope stack.
C19_VarIsResolvedInCurrentScopes ==
    \A j \in 1..Len(call_log) :
        LET c == call_log[j]
        IN (storage.term_store[c.term].tag = "Var" /\ MemberOfCall(c).found)
           => /\ c.kind = "Ok"
              /\ c.val # None
              /\ Call("TermTree", <<storage, c.val>>) = ResolvedVar(c)

-----------------------------------------------------------------------------
(* Claims about access on a merge *)

\* What the access of the call c gives on arm k of the merge ids, on its own.
ArmAccess(c, ids, k) ==
    LET access == storage.term_store[c.term]
        r == Call("apply_access_term", <<StorageUnder(c.scopes), ids[k], access.name, access.op>>)
    IN [ok |-> IsOk(r) /\ r.val # None,
        tree |-> Call("TermTree", <<r.st, unwrap_or(r, ids[k])>>)]

\* The results of the arms that give one, in the order of the arms.
ArmResults(c, ids) ==
    SelectSeq([k \in 1..Len(ids) |-> ArmAccess(c, ids, k)], LAMBDA x : x.ok)

\* The call c is an access on a subject that simplifies to a Merge, and the
\* access is applied (the call is not answered from the cache).
AccessOnMerge(c) ==
    /\ storage.term_store[c.term].tag = "Access"
    /\ c.cached = None
    /\ LET s == Call("potentially_simplify_term",
                     <<StorageUnder(c.scopes), storage.term_store[c.term].subject>>)
       IN IsOk(s) /\ s.st.term_store[s.val].tag = "Merge"

\* The arms of the merge the subject of the call c simplifies to.
MergeArms(c) ==
    LET s == Call("potentially_simplify_term",
                  <<StorageUnder(c.scopes), storage.term_store[c.term].subject>>)
    IN s.st.term_store[s.val].terms

\* C20: access on a subject that simplifies to a Merge applies the access to
\* each arm, drops the arms that fail or give nothing, and returns None for no
\* result, the result for one, and AmbiguousAccess with all the results in the
\* order of the arms for several.
C20_AccessOnMergeCollectsArms ==
    \A j \in 1..Len(call_log) :
        LET c == call_log[j]
        IN AccessOnMerge(c)
           => LET results == ArmResults(c, MergeArms(c))
              IN CASE Len(results) = 0 -> c.kind = "Ok" /\ c.val = None
                   [] Len(results) = 1 ->
                        /\ c.kind = "Ok"
                        /\ c.val # None
                        /\ Call("TermTree", <<storage, c.val>>) = results[1].tree
                   [] OTHER ->
                        /\ c.kind = "Err"
                        /\ c.err.kind = "AmbiguousAccess"
                        /\ [k \in 1..Len(c.err.results) |->
                               Call("TermTree", <<storage, c.err.results[k]>>)]
                           = [k \in 1..Len(results) |-> results[k].tree]

\* An access on a merge of which two arms give different results.
C20_Witness ==
    \E j \in 1..Len(call_log) :
        LET c == call_log[j]
        IN /\ AccessOnMerge(c)
           /\ c.err.kind = "AmbiguousAccess"
           /\ Len(c.err.results) = 2
           /\ c.err.results[1] # c.err.results[2]

-----------------------------------------------------------------------------
(* The discoverer, run on its own: set-bound scopes are applied to terms and
   the free variables of terms are collected. *)

MaxDiscoverCalls == 2

\* The terms and scopes the discoverer is run on, with the ids the stores give
\* them:
\*   terms    1 i32, 2 str, 3 T (bound), 4 U (bound), 5 Rt(T), 6 Merge(T, U), 7 AnyTy,
\*            8 <T: AnyTy> => T, 9 <U: AnyTy> => T, 10 (x: T) -> U, 11 S := struct(x: T),
\*            12 E := enum { v(x: T) }, 13 D := mod { m: T = i32 }, 14 SetBound(T, {T := i32}),
\*            15 ?1, 16 a, 17 T.x, 18 (<T: AnyTy> => T)<T>, 19 Rt(?1),
\*            20 the name T, 21 <T: ?1> => T (by name), 22 Merge(a, ?1),
\*            23 a.m, 24 a::m, 25 a.v, 26 a::v, 27 Rt(a), 28 Rt(a)::x, 29 Rt(a).x,
\*            30 <T: AnyTy> => { <U: T> => U }
\*   scopes   1 {T := i32}, 2 {T := U, U := str}, 3 {U := i32}, 4 the members of D,
\*            5 the root scope, 6 {T := T}, 7 {T := Rt(T)}
DiscoverPrelude ==
    [term_store |->
       <<[tag |-> "NominalDef", nominal_def_id |-> 1],
         [tag |-> "NominalDef", nominal_def_id |-> 2],
         [tag |-> "BoundVar", name |-> "T"],
         [tag |-> "BoundVar", name |-> "U"],
         [tag |-> "Rt", ty |-> 3],
         [tag |-> "Merge", terms |-> <<3, 4>>],
         [tag |-> "AnyTy"],
         [tag |-> "TyFn", name |-> "f", general_params |-> 1, general_return_ty |-> 7,
          cases |-> <<[params |-> 1, return_ty |-> 7, return_value |-> 3]>>],
         [tag |-> "TyFn", name |-> "g", general_params |-> 2, general_return_ty |-> 7,
          cases |-> <<[params |-> 2, return_ty |-> 7, return_value |-> 3]>>],
         [tag |-> "FnTy", params |-> 3, return_ty |-> 4],
         [tag |-> "NominalDef", nominal_def_id |-> 3],
         [tag |-> "NominalDef", nominal_def_id |-> 4],
         [tag |-> "ModDef", mod_def_id |-> 1],
         [tag |-> "SetBound", term |-> 3, scope |-> 1],
         [tag |-> "Unresolved", resolution_id |-> 1],
         [tag |-> "Var", name |-> "a"],
         [tag |-> "Access", subject |-> 3, name |-> "x", op |-> "Property"],
         [tag |-> "TyFnCall", subject |-> 8, args |-> 1],
         [tag |-> "Rt", ty |-> 15],
         [tag |-> "Var", name |-> "T"],
         [tag |-> "TyFn", name |-> "h", general_params |-> 4, general_return_ty |-> 7,
          cases |-> <<[params |-> 4, return_ty |-> 7, return_value |-> 20]>>],
         [tag |-> "Merge", terms |-> <<16, 15>>],
         [tag |-> "Access", subject |-> 16, name |-> "m", op |-> "Property"],
         [tag |-> "Access", subject |-> 16, name |-> "m", op |-> "Namespace"],
         [tag |-> "Access", subject |-> 16, name |-> "v", op |-> "Property"],
         [tag |-> "Access", subject |-> 16, name |-> "v", op |-> "Namespace"],
         [tag |-> "Rt", ty |-> 16],
         [tag |-> "Access", subject |-> 27, name |-> "x", op |-> "Namespace"],
         [tag |-> "Access", subject |-> 27, name |-> "x", op |-> "Property"],
         [tag |-> "TyFn", name |-> "k", general_params |-> 1, general_return_ty |-> 7,
          cases |-> <<[params |-> 5, return_ty |-> 7, return_value |-> 4]>>]>>,
     params_store |->
       <<<<Param("T", 7, None)>>,
         <<Param("U", 7, None)>>,
         <<Param("x", 3, None)>>,
         <<Param("T", 15, None)>>,
         <<Param("U", 3, None)>>>>,
     args_store |-> <<<<[name |-> NoName, value |-> 3]>>>>,
     scope_store |->
       <<[kind |-> "SetBound",
          members |-> <<[name |-> "T", ty |-> 7, value |-> 1, kind |-> "SetBound"]>>],
         [kind |-> "SetBound",
          members |-> <<[name |-> "T", ty |-> 7, value |-> 4, kind |-> "SetBound"],
                        [name |-> "U", ty |-> 7, value |-> 2, kind |-> "SetBound"]>>],
         [kind |-> "SetBound",
          members |-> <<[name |-> "U", ty |-> 7, value |-> 1, kind |-> "SetBound"]>>],
         [kind |-> "Constant", members |-> <<ConstantMember("m", 3, 1)>>],
         [kind |-> "Constant", members |-> <<>>],
         [kind |-> "SetBound",
          members |-> <<[name |-> "T", ty |-> 7, value |-> 3, kind |-> "SetBound"]>>],
         [kind |-> "SetBound",
          members |-> <<[name |-> "T", ty |-> 7, value |-> 5, kind |-> "SetBound"]>>]>>,
     nominal_def_store |->
       <<[kind |-> "Struct", name |-> "i32", fields |-> None],
         [kind |-> "Struct", name |-> "str", fields |-> None],
         [kind |-> "Struct", name |-> "S", fields |-> 3],
         [kind |-> "Enum", name |-> "E", variants |-> <<[name |-> "v", fields |-> 3]>>]>>,
     mod_def_store |->
       <<[name |-> "D", members |-> 4, origin |-> [kind |-> "Source", trt |-> None]]>>,
     trt_def_store |-> <<>>,
     pat_store |-> <<>>,
     scopes |-> <<5>>,
     simplification_store |-> <<>>]

\* The terms the discoverer starts from and the set-bound scopes it applies.
DiscoverTerms == (3..22) \cup {30}
SetBoundScopes == (1..3) \cup {6, 7}

InitDiscover ==
    /\ fn = "discover" /\ params = <<>> /\ args = <<>> /\ name_map = "first"
    /\ pc = "done" /\ i = 0 /\ used_params = {} /\ default_params = {}
    /\ done_positional = FALSE /\ result = <<>> /\ params_used = {} /\ outcome = Running
    /\ NoCounterCalls
    /\ StorageIs(DiscoverPrelude)
    /\ input \in DiscoverTerms
    /\ call_log = <<>>

\* What a call of the discoverer left behind.
DiscoverRecord(op, term_id, scope_id, r, sub_vars) ==
    [op |-> op, term |-> term_id, scope |-> scope_id, kind |-> r.kind, val |-> r.val,
     err |-> r.err, vars |-> sub_vars]

\* A call of Discoverer::apply_set_bound_to_term from outside.
ApplySetBoundToTerm(scope_id, term_id) ==
    /\ fn \in {"discover", "build"}
    /\ Len(call_log) < MaxDiscoverCalls
    /\ LET r == apply_set_bound_to_term(storage, scope_id, term_id)
       IN /\ SetStorage(r.st)
          /\ call_log' = Append(call_log,
                                DiscoverRecord("apply_set_bound_to_term", term_id, scope_id, r, {}))
    /\ UNCHANGED <<pvars, cvars, input>>

\* A call of Discoverer::get_free_sub_vars_in_term from outside.
GetFreeSubVarsInTerm(term_id) ==
    /\ fn = "discover"
    /\ Len(call_log) < MaxDiscoverCalls
    /\ call_log' = Append(call_log,
                          DiscoverRecord("get_free_sub_vars_in_term", term_id, None,
                                         NoChange(storage),
                                         get_free_sub_vars_in_term(storage, term_id)))
    /\ UNCHANGED <<pvars, cvars, input, term_store, params_store, args_store, scope_store,
                   nominal_def_store, mod_def_store, trt_def_store, pat_store, scopes,
                   simplification_store>>

\* The substitutions the discoverer is asked about: the empty one, the holes ?1
\* and ?2 mapped to i32, ?1, Rt(?1) and Merge(a, ?1), and two of these together.
DiscoverSubs ==
    {EmptySub}
    \cup {SubOf(u, t) : u \in {1, 2}, t \in {1, 15, 19, 22}}
    \cup {ComposeSubs(SubOf(1, 1), SubOf(2, 19))}

\* A call of Discoverer::get_free_sub_vars_in_sub from outside.
GetFreeSubVarsInSub(sub) ==
    /\ fn = "discover"
    /\ Len(call_log) < MaxDiscoverCalls
    /\ call_log' = Append(call_log,
                          [op |-> "get_free_sub_vars_in_sub", sub |-> sub, kind |-> "Ok",
                           val |-> None, err |-> NoError,
                           vars |-> get_free_sub_vars_in_sub(storage, sub)])
    /\ UNCHANGED <<pvars, cvars, input, term_store, params_store, args_store, scope_store,
                   nominal_def_store, mod_def_store, trt_def_store, pat_store, scopes,
                   simplification_store>>

NextDiscover ==
    \/ \E s \in SetBoundScopes : \E t \in CallTargets : ApplySetBoundToTerm(s, t)
    \/ \E t \in CallTargets : GetFreeSubVarsInTerm(t)
    \/ \E sub \in DiscoverSubs : GetFreeSubVarsInSub(sub)

SpecDiscover == InitDiscover /\ [][NextDiscover]_vars

-----------------------------------------------------------------------------
(* Claims about the discoverer *)

\* The terms held by the parameters params_id (types and default values).
TermsOfParams(st, params_id) ==
    UNION {{p.ty} \cup (IF p.default_value # None THEN {p.default_value} ELSE {})
           : p \in Range(st.params_store[params_id])}

\* The terms directly under the term `term`, definitions not entered.
TermsUnder(st, term) ==
    CASE term.tag \in {"Access", "TyFnCall", "FnCall", "Constructed"} ->
            {term.subject} \cup
            (IF term.tag = "Access" THEN {}
             ELSE {a.value : a \in Range(st.args_store[
                       IF term.tag = "Constructed" THEN term.members ELSE term.args])})
      [] term.tag \in {"Merge", "Union"} -> Range(term.terms)
      [] term.tag = "TyFn" ->
            TermsOfParams(st, term.general_params) \cup {term.general_return_ty} \cup
            UNION {TermsOfParams(st, c.params) \cup {c.return_ty, c.return_value}
                   : c \in Range(term.cases)}
      [] term.tag \in {"TyFnTy", "FnTy"} -> TermsOfParams(st, term.params) \cup {term.return_ty}
      [] term.tag \in {"SetBound", "TyOf"} -> {term.term}
      [] term.tag = "Rt" -> {term.ty}
      [] term.tag = "FnLit" -> {term.fn_ty, term.return_value}
      [] term.tag = "TupleTy" -> TermsOfParams(st, term.members)
      [] term.tag = "TupleLit" -> {a.value : a \in Range(st.args_store[term.members])}
      [] OTHER -> {}

\* The parameter names a type function binds.
NamesBoundBy(st, term) ==
    CASE term.tag = "TyFn" ->
            {p.name : p \in Range(st.params_store[term.general_params])} \cup
            UNION {{p.name : p \in Range(st.params_store[c.params])} : c \in Range(term.cases)}
      [] term.tag = "TyFnTy" -> {p.name : p \in Range(st.params_store[term.params])}
      [] OTHER -> {}

\* The holes and the free names reachable through a term: a hole and a Var
\* each give a variable, and a type function takes the names of its parameters
\* out of what its parts give.
RECURSIVE HolesAndFreeNames(_, _)
HolesAndFreeNames(st, term_id) ==
    LET term == st.term_store[term_id]
    IN CASE term.tag = "Unresolved" -> {SubVar(term)}
         [] term.tag = "Var" -> {[kind |-> "Var", name |-> term.name, resolution_id |-> None]}
         [] OTHER ->
               {v \in UNION {HolesAndFreeNames(st, x) : x \in TermsUnder(st, term)} :
                   ~(v.kind = "Var" /\ v.name \in NamesBoundBy(st, term))}

\* C14: get_free_sub_vars_in_term(t) is exactly the set of the holes and the
\* free Var names reachable through t, the parameter names of an enclosing
\* type function removed.
C14_FreeSubVarsAreHolesAndFreeNames ==
    \A j \in 1..Len(call_log) :
        call_log[j].op = "get_free_sub_vars_in_term"
            => call_log[j].vars = HolesAndFreeNames(storage, call_log[j].term)

\* The names of the members of a scope.
MemberNames(st, scope_id) == {mem.name : mem \in Range(st.scope_store[scope_id].members)}

\* The names of the BoundVars a term contains outside every binder of the name:
\* a type function takes out the names of its parameters and a SetBound the
\* names its scope gives a value to; the values of that scope are part of the
\* term. Definitions are not entered.
RECURSIVE BoundVarsIn(_, _)
BoundVarsIn(st, term_id) ==
    LET term == st.term_store[term_id]
    IN CASE term.tag = "BoundVar" -> {term.name}
         [] term.tag = "SetBound" ->
               (BoundVarsIn(st, term.term) \ MemberNames(st, term.scope)) \cup
               UNION {BoundVarsIn(st, mem.value)
                      : mem \in {x \in Range(st.scope_store[term.scope].members) : x.value # None}}
         [] OTHER ->
               UNION {BoundVarsIn(st, x) : x \in TermsUnder(st, term)} \ NamesBoundBy(st, term)

\* C13: the term that applying a set-bound scope s to a term gives contains no
\* BoundVar named by a member of s, outside a type function that binds the
\* name anew and outside a SetBound that binds it.
C13_AppliedTermHasNoBoundVarOfScope ==
    \A j \in 1..Len(call_log) :
        LET c == call_log[j]
        IN (c.op = "apply_set_bound_to_term" /\ c.kind = "Ok")
              => BoundVarsIn(storage, IF c.val = None THEN c.term ELSE c.val)
                    \cap MemberNames(storage, c.scope) = {}

-----------------------------------------------------------------------------
(* The builder (building.rs).  A builder is made over the storage, with or
   without an ambient scope, for the one call it serves; `scope` is
   PrimitiveBuilder.scope, None when the builder was made by new(). *)

MaxBuildCalls == 2

\* What a create operation returns, next to the storage it leaves behind.
Built(st, id) == [st |-> st, id |-> id]

\* The pattern takes the place of the patterns stored so far.
OverwritePat(st, pat) == [st EXCEPT !.pat_store = <<pat>>]

create_pat(st, pat) == [st EXCEPT !.pat_store = Append(@, pat)]

\* Scope::add: the member is put behind the members the scope has.
scope_add(st, scope, member) == [st EXCEPT !.scope_store[scope].members = Append(@, member)]

\* The member is made private.
AddPrivateMember(st, scope, name, ty, value) ==
    IF scope # None
    THEN scope_add(st, scope, [ConstantMember(name, ty, value) EXCEPT !.visibility = "Private"])
    ELSE st

add_pub_member_to_scope(st, scope, name, ty, value) ==
    IF scope # None THEN scope_add(st, scope, ConstantMember(name, ty, value)) ELSE st

add_nominal_def_to_scope(st, scope, name, def_id) ==
    LET st1 == create_term(st, [tag |-> "AnyTy"])
        st2 == create_term(st1, [tag |-> "NominalDef", nominal_def_id |-> def_id])
    IN add_pub_member_to_scope(st2, scope, name, Len(st1.term_store), Len(st2.term_store))

add_mod_def_to_scope(st, scope, name, def_id, origin) ==
    LET st1 == IF origin.kind = "TrtImpl" THEN st ELSE create_term(st, [tag |-> "AnyTy"])
        def_ty == IF origin.kind = "TrtImpl" THEN origin.trt ELSE Len(st1.term_store)
        st2 == create_term(st1, [tag |-> "ModDef", mod_def_id |-> def_id])
    IN add_pub_member_to_scope(st2, scope, name, def_ty, Len(st2.term_store))

create_mod_def(st, scope, name, origin, members) ==
    LET st1 == [st EXCEPT !.mod_def_store =
                    Append(@, [name |-> name, members |-> members, origin |-> origin])]
        def_id == Len(st1.mod_def_store)
    IN Built(IF name # NoName THEN add_mod_def_to_scope(st1, scope, name, def_id, origin)
             ELSE st1, def_id)

create_struct_def(st, scope, struct_name, fields) ==
    LET st1 == [st EXCEPT !.nominal_def_store =
                    Append(@, [kind |-> "Struct", name |-> struct_name, fields |-> fields])]
        def_id == Len(st1.nominal_def_store)
    IN Built(IF struct_name # NoName THEN add_nominal_def_to_scope(st1, scope, struct_name, def_id)
             ELSE st1, def_id)

create_enum_def(st, scope, enum_name, variants) ==
    LET st1 == [st EXCEPT !.nominal_def_store =
                    Append(@, [kind |-> "Enum", name |-> enum_name, variants |-> variants])]
        def_id == Len(st1.nominal_def_store)
    IN Built(IF enum_name # NoName THEN add_nominal_def_to_scope(st1, scope, enum_name, def_id)
             ELSE st1, def_id)

create_trt_def(st, scope, trait_name, members) ==
    LET st1 == [st EXCEPT !.trt_def_store = Append(@, [name |-> trait_name, members |-> members])]
        trt_def_id == Len(st1.trt_def_store)
        st2 == create_term(st1, [tag |-> "TrtKind"])
        st3 == create_term(st2, [tag |-> "Trt", trt_def_id |-> trt_def_id])
    IN Built(IF trait_name # NoName
             THEN add_pub_member_to_scope(st3, scope, trait_name, Len(st2.term_store),
                                          Len(st3.term_store))
             ELSE st3, trt_def_id)

create_ty_fn_term(st, scope, name, params_id, return_ty, return_value) ==
    LET st1 == create_term(st, [tag |-> "TyFn", name |-> name, general_params |-> params_id,
                                general_return_ty |-> return_ty,
                                cases |-> <<[params |-> params_id, return_ty |-> return_ty,
                                             return_value |-> return_value]>>])
        ty_fn_id == Len(st1.term_store)
        st2 == create_term(st1, [tag |-> "TyFnTy", params |-> params_id, return_ty |-> return_ty])
    IN Built(IF name # NoName
             THEN add_pub_member_to_scope(st2, scope, name, Len(st2.term_store), ty_fn_id)
             ELSE st2, ty_fn_id)

\* The builder is run over the storage of the discoverer's terms; the name a
\* definition is given is the one the term 16 (Var a) refers to; the terms
\* simplified are that name, a merge that holds it, and accesses on it.
InitBuild ==
    /\ fn = "build" /\ params = <<>> /\ args = <<>> /\ name_map = "first"
    /\ pc = "done" /\ i = 0 /\ used_params = {} /\ default_params = {}
    /\ done_positional = FALSE /\ result = <<>> /\ params_used = {} /\ outcome = Running
    /\ NoCounterCalls
    /\ StorageIs(DiscoverPrelude)
    /\ input \in {16, 22, 23, 24, 25, 26, 28, 29}
    /\ call_log = <<>>

\* The ambient scopes a builder is made with, and the names given to definitions.
AmbientScopes == {None, 4, 5}
DefNames == {NoName, "a"}

\* The origins a module is created with: a source, or the implementation of a
\* trait that is in the term store.
ModDefOrigins ==
    {[kind |-> "Source", trt |-> None]} \cup
    {[kind |-> "TrtImpl", trt |-> t] : t \in {x \in 1..Len(term_store) : term_store[x].tag = "Trt"}}

\* A create operation of a builder with ambient scope `scope`: the call, the
\* scope store before and after it, and the id it returned.
Build(op, scope, name, r) ==
    /\ fn = "build"
    /\ Len(call_log) < MaxBuildCalls
    /\ SetStorage(r.st)
    /\ call_log' = Append(call_log,
                          [op |-> op, scope |-> scope, name |-> name, before |-> scope_store,
                           after |-> r.st.scope_store, id |-> r.id, kind |-> "Ok",
                           val |-> None, err |-> NoError])
    /\ UNCHANGED <<pvars, cvars, input>>

CreateModDef(scope, name, origin) ==
    Build("create_mod_def", scope, name, create_mod_def(storage, scope, name, origin, 4))

CreateStructDef(scope, name) ==
    Build("create_struct_def", scope, name, create_struct_def(storage, scope, name, 3))

CreateEnumDef(scope, name) ==
    Build("create_enum_def", scope, name,
          create_enum_def(storage, scope, name, <<[name |-> "v", fields |-> 3]>>))

CreateTrtDef(scope, name) ==
    Build("create_trt_def", scope, name, create_trt_def(storage, scope, name, 4))

CreateTyFnTerm(scope, name) ==
    Build("create_ty_fn_term", scope, name, create_ty_fn_term(storage, scope, name, 1, 7, 3))

CreatePat(scope, pat) ==
    Build("create_pat", scope, NoName,
          Built(create_pat(storage, pat), Len(pat_store) + 1))

NextBuild ==
    \/ \E scope \in AmbientScopes, name \in DefNames, origin \in ModDefOrigins :
          CreateModDef(scope, name, origin)
    \/ \E scope \in AmbientScopes, name \in DefNames : CreateStructDef(scope, name)
    \/ \E scope \in AmbientScopes, name \in DefNames : CreateEnumDef(scope, name)
    \/ \E scope \in AmbientScopes, name \in DefNames : CreateTrtDef(scope, name)
    \/ \E scope \in AmbientScopes, name \in DefNames : CreateTyFnTerm(scope, name)
    \/ \E scope \in AmbientScopes, pat \in {[tag |-> "Ignore"], [tag |-> "Const", term |-> 1]} :
          CreatePat(scope, pat)
    \/ \E t \in CallTargets : SimplifyTerm(t)
    \/ \E s \in SetBoundScopes, t \in CallTargets : ApplySetBoundToTerm(s, t)

SpecBuild == InitBuild /\ [][NextBuild]_vars

-----------------------------------------------------------------------------
(* Claims about the builder and the stores *)

\* The create operations that make a definition.
DefinitionOps ==
    {"create_mod_def", "create_struct_def", "create_enum_def", "create_trt_def",
     "create_ty_fn_term"}

\* The term term_id is the term of the definition the call c created.
IsDefinitionTerm(c, term_id) ==
    CASE c.op = "create_ty_fn_term" -> term_id = c.id /\ term_store[term_id].tag = "TyFn"
      [] c.op = "create_mod_def" -> term_store[term_id] = [tag |-> "ModDef", mod_def_id |-> c.id]
      [] c.op = "create_trt_def" -> term_store[term_id] = [tag |-> "Trt", trt_def_id |-> c.id]
      [] OTHER -> term_store[term_id] = [tag |-> "NominalDef", nominal_def_id |-> c.id]

\* The call c appended one public, immutable, initialised member of its name,
\* with the definition term as value, to its ambient scope, and changed no
\* other scope.
AppendedOneMember(c) ==
    /\ Len(c.after) = Len(c.before)
    /\ \A s \in 1..Len(c.before) : s # c.scope => c.after[s] = c.before[s]
    /\ c.after[c.scope].kind = c.before[c.scope].kind
    /\ Len(c.after[c.scope].members) = Len(c.before[c.scope].members) + 1
    /\ SubSeq(c.after[c.scope].members, 1, Len(c.before[c.scope].members))
          = c.before[c.scope].members
    /\ LET member == c.after[c.scope].members[Len(c.after[c.scope].members)]
       IN /\ member.name = c.name
          /\ member.visibility = "Public"
          /\ member.mutability = "Immutable"
          /\ member.data = "InitialisedWithTy"
          /\ IsDefinitionTerm(c, member.value)

\* C15: creating a named definition (nominal, module, trait, type function)
\* with a builder that has an ambient scope appends exactly one public,
\* immutable, initialised member of that name, whose value is the definition
\* term, to that scope; a nameless definition, or a builder without ambient
\* scope, changes no scope.
C15_NamedDefinitionIsAddedToAmbientScope ==
    \A j \in 1..Len(call_log) :
        LET c == call_log[j]
        IN c.op \in DefinitionOps =>
              IF c.scope # None /\ c.name # NoName THEN AppendedOneMember(c)
              ELSE c.after = c.before

C15_Witness ==
    /\ \E j \in 1..Len(call_log) :
          /\ call_log[j].op = "create_mod_def" /\ call_log[j].scope = 5
          /\ call_log[j].name = "a" /\ AppendedOneMember(call_log[j])
    /\ \E j \in 1..Len(call_log) :
          /\ call_log[j].op = "create_ty_fn_term" /\ call_log[j].scope = 5
          /\ call_log[j].name = NoName

\* Every id the store `before` has issued holds the same entity in `after`.
KeepsEntities(before, after) ==
    /\ Len(before) <= Len(after)
    /\ SubSeq(after, 1, Len(before)) = before

\* Terms, parameters, arguments and patterns keep their ids and entities.
KeepsTermsParamsArgsPats ==
    /\ KeepsEntities(term_store, term_store')
    /\ KeepsEntities(params_store, params_store')
    /\ KeepsEntities(args_store, args_store')
    /\ KeepsEntities(pat_store, pat_store')

\* C18: no operation of the builder, the discoverer or the simplifier changes
\* the entity under an id issued before (term, params, args, pattern, scope);
\* operations only add entities, under new ids.
C18_IssuedEntitiesNeverChange ==
    [][KeepsTermsParamsArgsPats /\ KeepsEntities(scope_store, scope_store')]_vars

\* C18, as amended: terms, parameters, arguments and patterns are kept as
\* above; a scope keeps its id, its kind and the members it has, in their
\* order, and may be given further members behind them.
C18_EntitiesAreKeptAndScopesOnlyGrow ==
    [][/\ KeepsTermsParamsArgsPats
       /\ Len(scope_store) <= Len(scope_store')
       /\ \A s \in 1..Len(scope_store) :
             /\ scope_store'[s].kind = scope_store[s].kind
             /\ KeepsEntities(scope_store[s].members, scope_store'[s].members)]_vars

\* A builder has given a scope a member, a pattern is stored, and a later
\* call of the simplifier or the discoverer has created a term.
C18_Witness ==
    /\ Len(call_log) = 3
    /\ call_log[1].op \in DefinitionOps /\ call_log[1].after # call_log[1].before
    /\ call_log[2].op = "create_pat"
    /\ call_log[3].op = "simplify_term" /\ call_log[3].val # None

-----------------------------------------------------------------------------
(* Claims about access on a union *)

\* The term the subject of the access of the call c simplifies to.
SimplifiedSubject(c) ==
    LET s == Call("potentially_simplify_term",
                  <<StorageUnder(c.scopes), storage.term_store[c.term].subject>>)
    IN IF IsOk(s) THEN s.st.term_store[s.val] ELSE [tag |-> "none"]

\* The call c is an access on a subject that simplifies to a Union, and the
\* access is applied (the call is not answered from the cache).
AccessOnUnion(c) ==
    /\ c.op = "simplify_term"
    /\ storage.term_store[c.term].tag = "Access"
    /\ c.cached = None
    /\ SimplifiedSubject(c).tag = "Union"

\* What the access of the call c gives on the arm `arm`, on its own.
UnionArmAccess(c, arm) ==
    Call("apply_access_term", <<StorageUnder(c.scopes), arm, storage.term_store[c.term].name,
                                storage.term_store[c.term].op>>)

\* The arms accessed one after the other, each kept where the access gives
\* nothing; for arms whose access does not fail.
RECURSIVE ArmsAccessed(_, _, _, _)
ArmsAccessed(st, ids, name, op) ==
    IF ids = <<>> THEN [st |-> st, ids |-> <<>>]
    ELSE LET r == Call("apply_access_term", <<st, Head(ids), name, op>>)
             rest == ArmsAccessed(r.st, Tail(ids), name, op)
         IN [st |-> rest.st, ids |-> <<unwrap_or(r, Head(ids))>> \o rest.ids]

\* The simplification of the union of the arms of the call c, accessed.
UnionOfAccessedArms(c) ==
    LET access == storage.term_store[c.term]
        arms == ArmsAccessed(StorageUnder(c.scopes), SimplifiedSubject(c).terms,
                             access.name, access.op)
        st1 == create_term(arms.st, [tag |-> "Union", terms |-> arms.ids])
        r == Call("potentially_simplify_term", <<st1, Len(st1.term_store)>>)
    IN [kind |-> r.kind, tree |-> Call("TermTree", <<r.st, r.val>>)]

\* C21: access on a subject that simplifies to a Union applies the access to
\* every arm in order; if the access of an arm fails, the access fails with the
\* error of the leftmost failing arm; otherwise the result is the
\* simplification of the Union of the results of the arms, in their order, an
\* arm standing for itself where its access gave no result.
C21_AccessOnUnionDistributes ==
    \A j \in 1..Len(call_log) :
        LET c == call_log[j]
        IN AccessOnUnion(c)
           => LET ids == SimplifiedSubject(c).terms
                  failing == {k \in 1..Len(ids) : ~IsOk(UnionArmAccess(c, ids[k]))}
                  first == CHOOSE k \in failing : \A l \in failing : k <= l
              IN IF failing # {}
                 THEN /\ c.kind = UnionArmAccess(c, ids[first]).kind
                      /\ c.err.kind = UnionArmAccess(c, ids[first]).err.kind
                      /\ c.err.name = UnionArmAccess(c, ids[first]).err.name
                 ELSE /\ c.kind = UnionOfAccessedArms(c).kind
                      /\ c.kind = "Ok" =>
                            /\ c.val # None
                            /\ Call("TermTree", <<storage, c.val>>) = UnionOfAccessedArms(c).tree

\* An access on a union whose arms fail with different errors, and one on a
\* union of which an arm gives no result and is kept.
C21_Witness ==
    \/ \E j \in 1..Len(call_log) :
          LET c == call_log[j]
              ids == SimplifiedSubject(c).terms
          IN /\ AccessOnUnion(c)
             /\ c.kind = "Err"
             /\ ~IsOk(UnionArmAccess(c, ids[1])) /\ ~IsOk(UnionArmAccess(c, ids[2]))
             /\ UnionArmAccess(c, ids[1]).err.kind # UnionArmAccess(c, ids[2]).err.kind
    \/ \E j \in 1..Len(call_log) :
          LET c == call_log[j]
              ids == SimplifiedSubject(c).terms
          IN /\ AccessOnUnion(c)
             /\ c.kind = "Ok"
             /\ UnionArmAccess(c, ids[1]).val = None
             /\ UnionArmAccess(c, ids[2]).val # None

-----------------------------------------------------------------------------
(* Claims about the operators of an access *)

\* The call c is a simplification of an access that is applied (not answered
\* from the cache) and whose subject simplifies.
AppliedAccess(c) ==
    /\ c.op = "simplify_term"
    /\ storage.term_store[c.term].tag = "Access"
    /\ c.cached = None
    /\ SimplifiedSubject(c).tag # "none"

\* The subject of the access of the call c admits the namespace operator only:
\* a module, a trait or an enum.
NamespaceOnly(c) ==
    LET subject == SimplifiedSubject(c)
    IN \/ subject.tag \in {"ModDef", "Trt"}
       \/ /\ subject.tag = "NominalDef"
          /\ storage.nominal_def_store[subject.nominal_def_id].kind = "Enum"

\* The access of the call c creates no term beyond those the simplification of
\* its subject creates: no name is looked up.
NothingLookedUp(c) ==
    LET access == storage.term_store[c.term]
        s == Call("potentially_simplify_term", <<StorageUnder(c.scopes), access.subject>>)
        r == Call("apply_access_term", <<StorageUnder(c.scopes), access.subject, access.name,
                                         access.op>>)
    IN r.st.term_store = s.st.term_store

\* No scope was given a member after call j: the scopes are those of the call.
ScopesAsAtCall(j) == \A k \in (j + 1)..Len(call_log) : call_log[k].op \notin DefinitionOps

\* C22: a property access on a module, a trait or an enum fails with
\* UnsupportedPropertyAccess, and a namespace access on a runtime value fails
\* with UnsupportedNamespaceAccess, whether or not the subject has the name:
\* the name is not looked up.
C22_AccessOperatorIsGated ==
    \A j \in 1..Len(call_log) :
        LET c == call_log[j]
            access == storage.term_store[c.term]
        IN (AppliedAccess(c) /\ ScopesAsAtCall(j)) =>
              /\ (NamespaceOnly(c) /\ access.op = "Property")
                    => /\ c.kind = "Err"
                       /\ c.err = TcError("UnsupportedPropertyAccess", access.name)
                       /\ NothingLookedUp(c)
              /\ (SimplifiedSubject(c).tag = "Rt" /\ access.op = "Namespace")
                    => /\ c.kind = "Err"
                       /\ c.err = TcError("UnsupportedNamespaceAccess", access.name)
                       /\ NothingLookedUp(c)

\* A property access of a name a module has, of one an enum does not have, and
\* a namespace access on a runtime value have been refused.
C22_Witness ==
    \E j \in 1..Len(call_log) :
        LET c == call_log[j]
            access == storage.term_store[c.term]
        IN /\ AppliedAccess(c) /\ ScopesAsAtCall(j)
           /\ c.kind = "Err"
           /\ \/ SimplifiedSubject(c).tag = "ModDef" /\ access.name = "m" /\ access.op = "Property"
              \/ SimplifiedSubject(c).tag = "Rt" /\ access.op = "Namespace"

-----------------------------------------------------------------------------
(* Claims about the application of a type function *)

\* The storage after the subject of the call c is simplified, and the id the
\* subject has then.
SubjectSimplified(c) ==
    Call("potentially_simplify_term",
         <<StorageUnder(c.scopes), storage.term_store[c.term].subject>>)

\* The call c applies a type function: its term is a TyFnCall whose subject
\* simplifies to a TyFn, and the call is not answered from the cache.
TyFnApplied(c) ==
    /\ c.op = "simplify_term"
    /\ storage.term_store[c.term].tag = "TyFnCall"
    /\ c.cached = None
    /\ IsOk(SubjectSimplified(c))
    /\ SubjectSimplified(c).st.term_store[SubjectSimplified(c).val].tag = "TyFn"

\* The cases of the type function of the call c.
CasesOf(c) == SubjectSimplified(c).st.term_store[SubjectSimplified(c).val].cases

\* The cases of the call c whose parameters unify with the arguments, in case
\* order.
UnifyingCases(c) ==
    SelectSeq(CasesOf(c),
              LAMBDA case : Call("unify_params_with_args",
                                 <<SubjectSimplified(c).st, case.params,
                                   storage.term_store[c.term].args>>).kind = "Ok")

\* The return value of the case with the set-bound scope of its parameters
\* and the arguments of the call c applied to it, as a tree.
AppliedReturnValue(c, case) ==
    LET st1 == make_set_bound_scope(SubjectSimplified(c).st, case.params,
                                    storage.term_store[c.term].args)
        r == apply_set_bound_to_term(st1, Len(st1.scope_store), case.return_value)
    IN Call("TermTree", <<r.st, unwrap_or(r, case.return_value)>>)

\* The result of the call c is the Merge of the applied return values of its
\* unifying cases, in case order.
IsMergeOfUnifyingCases(c) ==
    /\ c.kind = "Ok"
    /\ c.val # None
    /\ storage.term_store[c.val].tag = "Merge"
    /\ Len(storage.term_store[c.val].terms) = Len(UnifyingCases(c))
    /\ \A k \in 1..Len(UnifyingCases(c)) :
          Call("TermTree", <<storage, storage.term_store[c.val].terms[k]>>)
              = AppliedReturnValue(c, UnifyingCases(c)[k])

GeneralParamsUnify(c) ==
    Call("unify_params_with_args",
         <<SubjectSimplified(c).st,
           SubjectSimplified(c).st.term_store[SubjectSimplified(c).val].general_params,
           storage.term_store[c.term].args>>).kind = "Ok"

-----------------------------------------------------------------------------
(* Claims about the simplification of Merge and Union lists *)

\* The call c simplifies a Merge or a Union, and is not answered from the
\* cache.
AlgebraicCall(c) ==
    /\ c.op = "simplify_term"
    /\ storage.term_store[c.term].tag \in {"Merge", "Union"}
    /\ c.cached = None

\* Each child simplified in turn, the contents of a child that is a list of
\* the kind `tag` spliced in; `simplified` and `spliced` say whether any child
\* was simplified, and whether any was spliced in.
RECURSIVE SimplifiedAndSpliced(_, _, _)
SimplifiedAndSpliced(st, ids, tag) ==
    IF ids = <<>> THEN [ok |-> TRUE, ids |-> <<>>, simplified |-> FALSE, spliced |-> FALSE]
    ELSE LET r == Call("simplify_term", <<st, Head(ids)>>)
             child == r.st.term_store[unwrap_or(r, Head(ids))]
             rest == SimplifiedAndSpliced(r.st, Tail(ids), tag)
         IN [ok |-> IsOk(r) /\ rest.ok,
             ids |-> (IF IsOk(r) /\ child.tag = tag THEN child.terms
                      ELSE <<unwrap_or(r, Head(ids))>>) \o rest.ids,
             simplified |-> r.val # None \/ rest.simplified,
             spliced |-> (IsOk(r) /\ child.tag = tag) \/ rest.spliced]

\* The flattened list of the call c.
Flattened(c) ==
    SimplifiedAndSpliced(StorageUnder(c.scopes), storage.term_store[c.term].terms,
                         storage.term_store[c.term].tag)

\* The positions of `flat` that no earlier position is equal to.
FirstOccurrences(flat) ==
    {k \in 1..Len(flat) : \A l \in 1..(k - 1) : ~terms_are_equal(storage, flat[l], flat[k])}

\* The elements of `flat` at the positions of `keep`, in their order.
RECURSIVE Restrict(_, _)
Restrict(flat, keep) ==
    IF flat = <<>> THEN <<>>
    ELSE Restrict(SubSeq(flat, 1, Len(flat) - 1), keep)
         \o (IF Len(flat) \in keep THEN <<flat[Len(flat)]>> ELSE <<>>)

\* C24: simplify_algebraic_term_list on a Merge (Union) list gives the list of
\* the simplified children, with the contents of the children that are a Merge
\* (Union) spliced in, without the elements an earlier element of that list is
\* equal to, in their order; no two kept elements are equal; and it gives None
\* iff no child was simplified, none was spliced in and no element was removed.
C24_AlgebraicListIsFlattenedAndDeduplicated ==
    \A j \in 1..Len(call_log) :
        LET c == call_log[j]
            flat == Flattened(c).ids
            kept == Restrict(flat, FirstOccurrences(flat))
        IN (AlgebraicCall(c) /\ Flattened(c).ok)
           => /\ c.kind = "Ok"
              /\ c.val = None <=> /\ ~Flattened(c).simplified
                                  /\ ~Flattened(c).spliced
                                  /\ kept = flat
              /\ c.val # None =>
                    /\ storage.term_store[c.val].tag = storage.term_store[c.term].tag
                    /\ storage.term_store[c.val].terms = kept
                    /\ \A k, l \in 1..Len(kept) :
                          k # l => ~terms_are_equal(storage, kept[k], kept[l])

\* A list with a simplified child, a spliced one and removed elements, of
\* which more than one element is kept.
C24_Witness ==
    \E j \in 1..Len(call_log) :
        LET c == call_log[j]
            flat == Flattened(c).ids
        IN /\ AlgebraicCall(c) /\ Flattened(c).ok
           /\ Flattened(c).simplified /\ Flattened(c).spliced
           /\ Cardinality(FirstOccurrences(flat)) \in 2..(Len(flat) - 2)
           /\ c.val # None
           /\ Len(storage.term_store[c.val].terms) = Cardinality(FirstOccurrences(flat))

-----------------------------------------------------------------------------
(* Claims about set-bound scopes applied to type functions *)

\* The call c applies a set-bound scope to a type function, and returns.
AppliedToTyFn(c) ==
    /\ c.op = "apply_set_bound_to_term"
    /\ c.kind = "Ok"
    /\ storage.term_store[c.term].tag = "TyFn"

\* The type function the call c gives: the new one, or the one it was given.
TyFnAfter(c) == storage.term_store[IF c.val # None THEN c.val ELSE c.term]

\* The term t is a BoundVar named by a parameter of params_id.
IsBoundVarOfParams(t, params_id) ==
    /\ storage.term_store[t].tag = "BoundVar"
    /\ storage.term_store[t].name
          \in {p.name : p \in Range(storage.params_store[params_id])}

\* The types of the parameters params_id, with the scope of the call c applied
\* under the empty ignore set.
ParamTysApplied(c, params_id) ==
    [k \in 1..Len(storage.params_store[params_id]) |->
        LET ty == storage.params_store[params_id][k].ty
            r == Call("apply_set_bound_to_term_rec", <<storage, c.scope, ty, {}>>)
        IN Call("TermTree", <<r.st, unwrap_or(r, ty)>>)]

\* C25: applying a set-bound scope to a TyFn leaves in place a BoundVar that is
\* the return_ty or the return_value of a case and is named by a parameter of
\* that case, and applies the scope to the parameter types of the case under
\* the outer ignore set.
C25_CaseParamsAreIgnoredInCaseBody ==
    \A j \in 1..Len(call_log) :
        LET c == call_log[j]
        IN AppliedToTyFn(c) =>
              \A k \in 1..Len(storage.term_store[c.term].cases) :
                  LET case == storage.term_store[c.term].cases[k]
                      after == TyFnAfter(c).cases[k]
                  IN /\ IsBoundVarOfParams(case.return_ty, case.params)
                           => storage.term_store[after.return_ty]
                                 = storage.term_store[case.return_ty]
                     /\ IsBoundVarOfParams(case.return_value, case.params)
                           => storage.term_store[after.return_value]
                                 = storage.term_store[case.return_value]
                     /\ [p \in 1..Len(storage.params_store[after.params]) |->
                            Call("TermTree", <<storage, storage.params_store[after.params][p].ty>>)]
                           = ParamTysApplied(c, case.params)

-----------------------------------------------------------------------------
(* Claims about the free variables of a substitution *)

\* The variables a substitution replaces, as SubVars.
DomainVars(sub) ==
    {[kind |-> "Unresolved", name |-> NoName, resolution_id |-> v] : v \in DOMAIN sub}

\* The holes that occur in the terms of the range of a substitution.
HolesOfRange(sub) ==
    {v \in UNION {HolesAndFreeNames(storage, sub[u]) : u \in DOMAIN sub} : v.kind = "Unresolved"}

\* C27: get_free_sub_vars_in_sub(sub) is the set of the free SubVars of the
\* terms of the range of sub minus the variables of the domain of sub; a
\* variable of the range that is not in the domain is in the result.
C27_FreeSubVarsOfSubAreRangeMinusDomain ==
    \A j \in 1..Len(call_log) :
        LET c == call_log[j]
        IN c.op = "get_free_sub_vars_in_sub"
              => /\ c.vars = UNION {get_free_sub_vars_in_term(storage, c.sub[u]) : u \in DOMAIN c.sub} \ DomainVars(c.sub)
                 /\ HolesOfRange(c.sub) \ DomainVars(c.sub) \subseteq c.vars

-----------------------------------------------------------------------------
(* Claims about termination *)

\* Every member of the scope has a value.
AllMembersHaveValues(scope_id) ==
    \A k \in 1..Len(storage.scope_store[scope_id].members) :
        storage.scope_store[scope_id].members[k].value # None

\* C26: apply_set_bound_to_term returns (a term, None or an error) for every
\* term and every set-bound scope whose members all have values, scopes in
\* which the value of a member contains a BoundVar named by a member of the
\* same scope included.
C26_ApplySetBoundReturns ==
    \A j \in 1..Len(call_log) :
        LET c == call_log[j]
        IN (c.op = "apply_set_bound_to_term" /\ AllMembersHaveValues(c.scope))
              => c.kind \in {"Ok", "Err"}

-----------------------------------------------------------------------------
(* Claims about namespace access on a module *)

\* The call c is a namespace access on a subject that simplifies to a module,
\* and is not answered from the cache.
NamespaceAccessOnModDef(c) ==
    /\ c.op = "simplify_term"
    /\ storage.term_store[c.term].tag = "Access"
    /\ storage.term_store[c.term].op = "Namespace"
    /\ c.cached = None
    /\ SimplifiedSubject(c).tag = "ModDef"

\* The names of the members of the module the call c accesses.
ModuleMemberNames(c) ==
    MemberNames(storage, storage.mod_def_store[SimplifiedSubject(c).mod_def_id].members)

\* C28: namespace access of a name on a module succeeds only when the name is
\* a member of the scope of the module; otherwise it fails with
\* UnresolvedNameInValue, whatever the scopes further out on the stack define.
C28_ModuleAccessSeesOnlyModuleMembers ==
    \A j \in 1..Len(call_log) :
        LET c == call_log[j]
        IN (NamespaceAccessOnModDef(c)
            /\ storage.term_store[c.term].name \notin ModuleMemberNames(c))
              => /\ c.kind = "Err"
                 /\ c.err.kind = "UnresolvedNameInValue"
                 /\ c.err.name = storage.term_store[c.term].name

-----------------------------------------------------------------------------
(* Claims that relate the pairing and the ordering check *)

\* The argument list was paired with the parameters, and then validated.
PairedThenValidated ==
    /\ fn = "validate_param_list_ordering" /\ pc = "done"
    /\ call_log # <<>>
    /\ call_log[1].op = "pair_args_with_params"

\* C29: an argument list that pair_args_with_params accepts is accepted by
\* validate_param_list_ordering.
C29_PairedArgsAreOrdered ==
    (PairedThenValidated /\ call_log[1].outcome = Ok) => outcome = Ok

\* A positional and a named argument are paired and then validated.
C29_Witness ==
    /\ PairedThenValidated
    /\ call_log[1].outcome = Ok
    /\ Len(call_log[1].result) >= 2
    /\ \E p, q \in 0..(len(args) - 1) : Named(args, p) /\ ~Named(args, q)
    /\ outcome = Ok

-----------------------------------------------------------------------------
(* The id types of the counter! macro (hash-utils/src/lib.rs:11-61), such as
   TraitId: threads call new() and total() on the one static counter. *)

\* The counter stays where it is.
StoreSame(counter, val) == counter

\* AtomicU32::fetch_add: the new value of the counter, wrapping around.
fetch_add(counter, val) == (counter + val) % (2 ^ CounterBits)

InitCounter ==
    /\ fn = "counter" /\ params = <<>> /\ args = <<>> /\ name_map = "first"
    /\ pc = "done" /\ i = 0 /\ used_params = {} /\ default_params = {}
    /\ done_positional = FALSE /\ result = <<>> /\ params_used = {} /\ outcome = Running
    /\ NoCounterCalls
    /\ term_store = <<>> /\ params_store = <<>> /\ args_store = <<>> /\ scope_store = <<>>
    /\ nominal_def_store = <<>> /\ mod_def_store = <<>> /\ trt_def_store = <<>>
    /\ pat_store = <<>> /\ scopes = <<>> /\ simplification_store = <<>>
    /\ input = 0
    /\ call_log = <<>>

\* The calls of new() whose fetch_add has taken effect: those that returned and
\* those that have not returned yet.
Fetched == Len(created) + Cardinality({t \in Threads : thread[t].pc = "new"})

\* new(), first step: `$counter_name.fetch_add(1, SeqCst)`, one atomic step that
\* gives the thread the value the counter had.
FetchAdd(t) ==
    /\ fn = "counter"
    /\ thread[t].pc = "idle"
    /\ Fetched < MaxNewCalls
    /\ thread' = [thread EXCEPT ![t] = [pc |-> "new", val |-> TRAIT_COUNTER, completed |-> 0,
                                        fetched |-> 0]]
    /\ TRAIT_COUNTER' = fetch_add(TRAIT_COUNTER, 1)
    /\ UNCHANGED <<pvars, created, term_store, params_store, args_store, scope_store,
                   nominal_def_store, mod_def_store, trt_def_store, pat_store, scopes,
                   simplification_store, input, call_log>>

\* new(), second step: `Self(..)` is returned to the caller.
ReturnNew(t) ==
    /\ fn = "counter"
    /\ thread[t].pc = "new"
    /\ created' = Append(created, thread[t].val)
    /\ thread' = [thread EXCEPT ![t].pc = "idle"]
    /\ UNCHANGED <<pvars, TRAIT_COUNTER, term_store, params_store, args_store, scope_store,
                   nominal_def_store, mod_def_store, trt_def_store, pat_store, scopes,
                   simplification_store, input, call_log>>

\* total(), first step: `$counter_name.load(SeqCst)`; the thread also notes how
\* many calls of new() had returned at that moment, and how many had added to
\* the counter.
Load(t) ==
    /\ fn = "counter"
    /\ thread[t].pc = "idle"
    /\ thread' = [thread EXCEPT ![t] = [pc |-> "total", val |-> TRAIT_COUNTER,
                                        completed |-> Len(created), fetched |-> Fetched]]
    /\ UNCHANGED <<pvars, TRAIT_COUNTER, created, term_store, params_store, args_store,
                   scope_store, nominal_def_store, mod_def_store, trt_def_store, pat_store,
                   scopes, simplification_store, input, call_log>>

\* total(), second step: the value is returned to the caller.
ReturnTotal(t) ==
    /\ fn = "counter"
    /\ thread[t].pc = "total"
    /\ thread' = [thread EXCEPT ![t].pc = "idle"]
    /\ UNCHANGED <<pvars, TRAIT_COUNTER, created, term_store, params_store, args_store,
                   scope_store, nominal_def_store, mod_def_store, trt_def_store, pat_store,
                   scopes, simplification_store, input, call_log>>

NextCounter ==
    \/ \E t \in Threads : FetchAdd(t)
    \/ \E t \in Threads : ReturnNew(t)
    \/ \E t \in Threads : Load(t)
    \/ \E t \in Threads : ReturnTotal(t)

SpecCounter == InitCounter /\ [][NextCounter]_vars

\* The ids that new() returned are pairwise distinct.
IdsAreDistinct == \A k, l \in 1..Len(created) : k # l => created[k] # created[l]

\* C30 as stated: while fewer than 2^CounterBits ids have been created, the
\* ids returned by new() are pairwise distinct and total() gives the number of
\* the calls of new() completed when it reads the counter.
C30_DistinctIdsAndTotalOfCompleted ==
    Fetched < 2 ^ CounterBits
        => /\ IdsAreDistinct
           /\ \A t \in Threads : thread[t].pc = "total" => thread[t].val = thread[t].completed

\* C30, amended: while fewer than 2^CounterBits ids have been created, the ids
\* returned by new() are pairwise distinct, the counter is the number of calls
\* of new() whose fetch_add has taken effect, and total() gives that number as
\* of its load: at least the number of calls of new() that had returned.
C30_DistinctIdsAndTotalOfFetched ==
    Fetched < 2 ^ CounterBits
        => /\ IdsAreDistinct
           /\ TRAIT_COUNTER = Fetched
           /\ \A t \in Threads :
                 thread[t].pc = "total"
                    => /\ thread[t].val = thread[t].fetched
                       /\ thread[t].val >= thread[t].completed

\* Two ids were returned, and a thread inside total() holds a value that counts
\* a call of new() that had not returned when the counter was read.
C30_Witness ==
    /\ Fetched < 2 ^ CounterBits
    /\ Len(created) >= 2
    /\ \E t \in Threads : thread[t].pc = "total" /\ thread[t].val > thread[t].completed

====
